---- MODULE Spec2Model ----
(***************************************************************************)
(* Model of the numeric core of the barebow archery analysis program:      *)
(* target scoring (src/src/scoring.py, src/api/routers/scoring.py) and     *)
(* the shot-group statistics of src/src/precision.py.                      *)
(*                                                                         *)
(* The program computes on floating-point numbers.  The model computes on  *)
(* integers: a length is held in thousandths of a centimetre ("milli"),    *)
(* or as an exact fraction num/den where the code divides.  Comparisons    *)
(* are exact; a square root is taken to the last digit the model keeps.    *)
(***************************************************************************)
EXTENDS Integers, Sequences, FiniteSets, TLC

VARIABLES scoreCall, grpCall, ewmaCall, hitCall, hitLog, globalRandom, cmpCall, parkCall, crawlCall, roundCall

vars == <<scoreCall, grpCall, ewmaCall, hitCall, hitLog, globalRandom, cmpCall, parkCall, crawlCall, roundCall>>

\* what the calls of one part of the program leave alone
otherThanScore == <<grpCall, ewmaCall, hitCall, hitLog, globalRandom, cmpCall, parkCall, crawlCall, roundCall>>
otherThanGroup == <<scoreCall, ewmaCall, hitCall, hitLog, globalRandom, cmpCall, parkCall, crawlCall, roundCall>>
otherThanCmp == <<scoreCall, grpCall, ewmaCall, hitCall, hitLog, globalRandom, parkCall, crawlCall, roundCall>>
otherThanPark == <<scoreCall, grpCall, ewmaCall, hitCall, hitLog, globalRandom, cmpCall, crawlCall, roundCall>>
otherThanCrawl == <<scoreCall, grpCall, ewmaCall, hitCall, hitLog, globalRandom, cmpCall, parkCall, roundCall>>
otherThanRound == <<scoreCall, grpCall, ewmaCall, hitCall, hitLog, globalRandom, cmpCall, parkCall, crawlCall>>
otherThanEwma == <<scoreCall, grpCall, hitCall, hitLog, globalRandom, cmpCall, parkCall, crawlCall, roundCall>>

(***************************************************************************)
(* Arithmetic helpers (Python / math built-ins).                           *)
(***************************************************************************)

\* thousandths per centimetre: the unit the model holds a radius in
Milli == 1000

Abs(a) == IF a < 0 THEN -a ELSE a

\* floor division that is right for negative numerators too (b > 0)
FloorDiv(a, b) == IF a >= 0 THEN a \div b ELSE -((-a + b - 1) \div b)

\* math.ceil(a / b) for b > 0
CeilDiv(a, b) == -FloorDiv(-a, b)

RECURSIVE IsqrtBetween(_, _, _)
IsqrtBetween(n, lo, hi) ==
    IF lo >= hi THEN lo
    ELSE LET mid == (lo + hi + 1) \div 2
         IN  IF mid * mid <= n THEN IsqrtBetween(n, mid, hi)
             ELSE IsqrtBetween(n, lo, mid - 1)

\* math.sqrt, to the last unit: the largest s with s*s <= n
Isqrt(n) == IsqrtBetween(n, 0, IF n < 46340 THEN n ELSE 46340)


\* one more decimal digit of a square root: s is the root of a/b so far and
\* rem = a*100^k - s*s*b; the largest digit t with (10s + t)^2 * b <= a*100^(k+1)
RECURSIVE SqrtDigit(_, _, _, _)
SqrtDigit(s, rem, b, t) ==
    IF t = 0 \/ (20 * s * t + t * t) * b <= 100 * rem THEN t
    ELSE SqrtDigit(s, rem, b, t - 1)

RECURSIVE SqrtDigits(_, _, _, _)
SqrtDigits(s, rem, b, k) ==
    IF k = 0 THEN s
    ELSE LET t == SqrtDigit(s, rem, b, 9)
         IN  SqrtDigits(10 * s + t, 100 * rem - (20 * s * t + t * t) * b, b, k - 1)

RECURSIVE IsqrtRatBetween(_, _, _, _)
IsqrtRatBetween(a, b, lo, hi) ==
    IF lo >= hi THEN lo
    ELSE LET mid == (lo + hi + 1) \div 2
         IN  IF mid * mid * b <= a THEN IsqrtRatBetween(a, b, mid, hi)
             ELSE IsqrtRatBetween(a, b, lo, mid - 1)

\* math.sqrt(a / b) to k decimal digits: the largest s with
\* (s / 10^k)^2 <= a / b   (a >= 0, b > 0)
SqrtRat(a, b, k) ==
    LET s0 == IsqrtRatBetween(a, b, 0, Isqrt(a \div b) + 1)
    IN  SqrtDigits(s0, a - s0 * s0 * b, b, k)

\* round(a / b) for b > 0, a >= 0: to the nearest integer, a tie to the even one
RoundDiv(a, b) ==
    LET q == a \div b
        r == a % b
    IN  IF 2 * r < b THEN q
        ELSE IF 2 * r > b THEN q + 1
        ELSE IF q % 2 = 0 THEN q ELSE q + 1

\* sqrt(P) >= a / b, decided exactly (P >= 0, b > 0)
SqrtGeqFrac(P, a, b) ==
    IF a <= 0 THEN TRUE
    ELSE LET s == Isqrt(P)
             rho == P - s * s
             k == a \div b
             r == a % b
             t == rho * b - 2 * s * r
         IN  IF s > k THEN TRUE
             ELSE IF s < k THEN FALSE
             ELSE IF t < 0 THEN FALSE
             ELSE IF t >= b THEN TRUE
             ELSE t * b >= r * r

(***************************************************************************)
(* src/src/scoring.py                                                      *)
(***************************************************************************)

\* a ring width of face/40 instead of face/20 (the diameter taken for the radius)
GetRingScoreHalfWidth(radius, face, x_is_11) ==
    IF face <= 0 THEN 0
    ELSE IF radius < 0 THEN 0
    ELSE LET ring_index == CeilDiv(radius * 40, face * Milli)
         IN  IF ring_index <= 1
             THEN IF x_is_11 /\ radius * 80 <= face * Milli THEN 11 ELSE 10
             ELSE IF ring_index <= 10 THEN 11 - ring_index
             ELSE 0

\* math.floor where the code takes math.ceil
GetRingScoreFloor(radius, face, x_is_11) ==
    IF face <= 0 THEN 0
    ELSE IF radius < 0 THEN 0
    ELSE LET ring_index == FloorDiv(radius * 20, face * Milli)
         IN  IF ring_index <= 1
             THEN IF x_is_11 /\ radius * 40 <= face * Milli THEN 11 ELSE 10
             ELSE IF ring_index <= 10 THEN 11 - ring_index
             ELSE 0

\* get_ring_score(radius_cm, face_size_cm, x_is_11): radius in milli, face in cm.
\* ring_width = face / 20 (cm) = face * Milli / 20 (milli), so
\* radius / ring_width = radius * 20 / (face * Milli), and
\* radius <= ring_width / 2  iff  radius * 40 <= face * Milli.
GetRingScore(radius, face, x_is_11) ==
    IF face <= 0 THEN 0                      \* ring_width <= 0
    ELSE IF radius < 0 THEN 0
    ELSE LET ring_index == CeilDiv(radius * 20, face * Milli)
         IN  IF ring_index <= 1
             THEN IF x_is_11 /\ radius * 40 <= face * Milli THEN 11 ELSE 10
             ELSE IF ring_index <= 10 THEN 11 - ring_index
             ELSE 0

\* strict comparisons where the code has <=
GetFlintScoreStrict(radius, face) ==
    IF radius * 10 < (face * 2 * Milli) \div 2 THEN 5
    ELSE IF radius * 10 < (face * 4 * Milli) \div 2 THEN 4
    ELSE IF radius * 10 < (face * 6 * Milli) \div 2 THEN 3
    ELSE 0

\* get_flint_score(radius_cm, face_size_cm): r5 = face * 0.2 / 2 and so on;
\* both sides are multiplied by 10 to stay in integers.
GetFlintScore(radius, face) ==
    IF radius * 10 <= (face * 2 * Milli) \div 2 THEN 5
    ELSE IF radius * 10 <= (face * 4 * Milli) \div 2 THEN 4
    ELSE IF radius * 10 <= (face * 6 * Milli) \div 2 THEN 3
    ELSE 0

(***************************************************************************)
(* src/api/routers/scoring.py                                              *)
(***************************************************************************)

\* tenths of a centimetre per centimetre: the unit of a shot coordinate
Tenths == 10

\* radius_cm = math.sqrt(x**2 + y**2), x and y in tenths, the result in milli
RadiusOf(x, y) == Isqrt((x * x + y * y) * (Milli \div Tenths) * (Milli \div Tenths))

\* str.upper() on the face types the callers send
Upper(face_type) == IF face_type \in {"Flint", "flint"} THEN "FLINT" ELSE face_type

\* calculate_ring_score(x, y, face_cm, face_type, x_is_11) -> ScoreResult
CalculateRingScore(x, y, face_cm, face_type, x_is_11) ==
    LET radius_cm == RadiusOf(x, y)
    IN  IF Upper(face_type) = "FLINT"
        THEN [score |-> GetFlintScore(radius_cm, face_cm), is_x |-> FALSE]
        ELSE LET score == GetRingScore(radius_cm, face_cm, x_is_11)
             IN  [score |-> score,
                  is_x  |-> score >= 10 /\ radius_cm * 40 <= face_cm * Milli]

(***************************************************************************)
(* src/src/precision.py: statistics of a shot group.                       *)
(*                                                                         *)
(* A group is a sequence of shots <<x, y>>, in whole centimetres.  With n  *)
(* shots, sums Sx, Sy and mean (Sx/n, Sy/n), the model keeps the integers  *)
(*   VarNum(v) = n * Sum(v^2) - Sum(v)^2      (n^2 times np.var(v))        *)
(*   RadiiSq[i] = (n*x[i] - Sx)^2 + (n*y[i] - Sy)^2   ((n * radii[i])^2)   *)
(* so that a result is a square root of integers divided by n.  A result   *)
(* that the code computes from an empty array is NaN: nan |-> TRUE.        *)
(***************************************************************************)

\* the digits the model keeps behind the decimal point before the code rounds
Digits == 4

RECURSIVE SumSeq(_)
SumSeq(s) == IF s = <<>> THEN 0 ELSE Head(s) + SumSeq(Tail(s))

Xs(pts) == [i \in 1..Len(pts) |-> pts[i][1]]
Ys(pts) == [i \in 1..Len(pts) |-> pts[i][2]]

\* n^2 * np.var(v, ddof=0)
VarNum(v) ==
    Len(v) * SumSeq([i \in 1..Len(v) |-> v[i] * v[i]]) - SumSeq(v) * SumSeq(v)

\* round(value, 3) of a value held with Digits decimals: the result in milli
Round3(v) == RoundDiv(v, 10)

\* compute_drms(xs, ys) = sqrt(var_x + var_y) = sqrt(v) / n
ComputeDrms(pts) ==
    [nan |-> Len(pts) = 0, v |-> VarNum(Xs(pts)) + VarNum(Ys(pts)), n |-> Len(pts)]

\* the float a compute_drms result stands for, with Digits decimals
DrmsValue(d) == IF d.nan THEN 0 ELSE SqrtRat(d.v, d.n * d.n, Digits)

\* (n * radii[i])^2 for radii = sqrt((xs - cx)^2 + (ys - cy)^2)
RadiiSq(pts) ==
    LET n == Len(pts)
        sx == SumSeq(Xs(pts))
        sy == SumSeq(Ys(pts))
    IN  [i \in 1..n |-> (n * pts[i][1] - sx) * (n * pts[i][1] - sx)
                        + (n * pts[i][2] - sy) * (n * pts[i][2] - sy)]

\* the sort np.percentile does: ascending
RECURSIVE InsertSorted(_, _)
InsertSorted(s, x) ==
    IF s = <<>> THEN <<x>>
    ELSE IF x <= Head(s) THEN <<x>> \o s
    ELSE <<Head(s)>> \o InsertSorted(Tail(s), x)

RECURSIVE SortAsc(_)
SortAsc(s) == IF s = <<>> THEN <<>> ELSE InsertSorted(SortAsc(Tail(s)), Head(s))

\* np.percentile taking the 50th percentile
ComputeR95Median(pts) ==
    LET n == Len(pts)
        r == SortAsc(RadiiSq(pts))
        pos == 10 * (n - 1)
        lo == pos \div 20
        hi == IF lo + 1 < n THEN lo + 1 ELSE lo
    IN  IF n = 0 THEN [nan |-> TRUE, lo |-> 0, hi |-> 0, frac |-> 0, n |-> 0]
        ELSE [nan |-> FALSE, lo |-> r[lo + 1], hi |-> r[hi + 1], frac |-> pos % 20, n |-> n]

\* compute_r95(xs, ys) = np.percentile(radii, 95), linear interpolation: with
\* pos = 0.95 * (n - 1) = 19 * (n - 1) / 20, lo = floor(pos), frac = pos - lo,
\* the result is radii[lo] + frac * (radii[lo + 1] - radii[lo]) on the sorted
\* radii, that is ((20 - frac) * sqrt(lo) + frac * sqrt(hi)) / (20 * n) for the
\* record below (frac in twentieths, lo and hi from RadiiSq).
ComputeR95(pts) ==
    LET n == Len(pts)
        r == SortAsc(RadiiSq(pts))
        pos == 19 * (n - 1)
        lo == pos \div 20
        hi == IF lo + 1 < n THEN lo + 1 ELSE lo
    IN  IF n = 0 THEN [nan |-> TRUE, lo |-> 0, hi |-> 0, frac |-> 0, n |-> 0]
        ELSE [nan |-> FALSE, lo |-> r[lo + 1], hi |-> r[hi + 1], frac |-> pos % 20, n |-> n]

\* r95 >= drms for a compute_r95 result and a compute_drms result of one group,
\* decided exactly: (20 - f) * sqrt(lo) + f * sqrt(hi) >= 20 * sqrt(v); both
\* sides are squared, and the remaining square root is compared by SqrtGeqFrac.
\* A comparison with NaN is false.
R95GeqDrms(r, d) ==
    IF r.nan \/ d.nan THEN FALSE
    ELSE LET f == r.frac
             a == 400 * d.v - (20 - f) * (20 - f) * r.lo - f * f * r.hi
             b == 2 * f * (20 - f)
         IN  IF b = 0 THEN a <= 0
             ELSE SqrtGeqFrac(r.lo * r.hi, a, b)

\* round(a / b) for b > 0 and any a
RoundDivSigned(a, b) == IF a >= 0 THEN RoundDiv(a, b) ELSE -RoundDiv(-a, b)

\* a / b > c / d, decided without multiplying (a, c >= 0, b, d > 0): the
\* integer parts first, then the reciprocals of the remainders
RECURSIVE FracGt(_, _, _, _)
FracGt(a, b, c, d) ==
    IF a \div b # c \div d THEN a \div b > c \div d
    ELSE IF a % b = 0 THEN FALSE
    ELSE IF c % d = 0 THEN TRUE
    ELSE FracGt(d, c % d, b, a % b)

\* the confidence levels of the callers, in percent
Confidences == <<10, 18, 19, 50, 95>>

\* scipy_stats.chi2.ppf(alpha / 2, 2 * n) in milli: row = confidence level (as
\* in Confidences), column = n
Chi2Lower ==
    << <<1196, 3047, 4952, 6877, 8812, 10755, 12703, 14655, 16611, 18569, 20529, 22491, 24454, 26419, 28386, 30353, 32322, 34291, 36262, 38233, 40205, 42177>>,
        <<1055, 2811, 4646, 6513, 8398, 10296, 12203, 14117, 16036, 17961, 19889, 21820, 23755, 25691, 27631, 29572, 31515, 33460, 35406, 37354, 39303, 41254>>,
        <<1038, 2782, 4608, 6468, 8347, 10239, 12141, 14050, 15965, 17885, 19809, 21736, 23667, 25600, 27536, 29474, 31414, 33356, 35299, 37244, 39190, 41138>>,
        <<575, 1923, 3455, 5071, 6737, 8438, 10165, 11912, 13675, 15452, 17240, 19037, 20843, 22657, 24478, 26304, 28136, 29973, 31815, 33660, 35510, 37363>>,
        <<51, 484, 1237, 2180, 3247, 4404, 5629, 6908, 8231, 9591, 10982, 12401, 13844, 15308, 16791, 18291, 19806, 21336, 22878, 24433, 25999, 27575>> >>

\* scipy_stats.chi2.ppf(1 - alpha / 2, 2 * n) in milli
Chi2Upper ==
    << <<1597, 3687, 5765, 7833, 9892, 11946, 13996, 16042, 18086, 20127, 22166, 24204, 26240, 28274, 30307, 32339, 34371, 36401, 38430, 40459, 42487, 44514>>,
        <<1783, 3971, 6119, 8244, 10354, 12453, 14544, 16629, 18708, 20783, 22854, 24922, 26987, 29050, 31110, 33169, 35225, 37280, 39333, 41385, 43436, 45485>>,
        <<1808, 4007, 6165, 8297, 10413, 12518, 14615, 16704, 18788, 20867, 22942, 25014, 27083, 29149, 31213, 33274, 35334, 37392, 39449, 41503, 43557, 45609>>,
        <<2773, 5385, 7841, 10219, 12549, 14845, 17117, 19369, 21605, 23828, 26039, 28241, 30435, 32620, 34800, 36973, 39141, 41304, 43462, 45616, 47766, 49913>>,
        <<7378, 11143, 14449, 17535, 20483, 23337, 26119, 28845, 31526, 34170, 36781, 39364, 41923, 44461, 46979, 49480, 51966, 54437, 56896, 59342, 61777, 64201>> >>

\* math.sqrt(2 * n / chi2) in milli, chi2 in milli
CiFactor(n, chi2) == SqrtRat(2 * n * Milli, chi2, 3)

\* the upper and the lower quantile exchanged
RayleighSwapped(pts, c) ==
    LET n == Len(pts)
        sigma == SqrtRat(VarNum(Xs(pts)) + VarNum(Ys(pts)), 2 * n * n, Digits)
    IN  IF n = 0
        THEN [nan |-> TRUE, sigma |-> 0, ci_lower |-> 0, ci_upper |-> 0,
              confidence |-> Confidences[c]]
        ELSE [nan |-> FALSE,
              sigma |-> Round3(sigma),
              ci_lower |-> Round3((sigma * CiFactor(n, Chi2Lower[c][n])) \div Milli),
              ci_upper |-> Round3((sigma * CiFactor(n, Chi2Upper[c][n])) \div Milli),
              confidence |-> Confidences[c]]

\* compute_rayleigh_sigma_with_ci(xs, ys, confidence), c the row of the level:
\* sigma^2 = sum(r_sq) / (2n) = (VarNum(xs) + VarNum(ys)) / (2 n^2); the three
\* results are rounded to 3 decimals.  For n = 0 every result is NaN.
ComputeRayleighSigmaWithCi(pts, c) ==
    LET n == Len(pts)
        sigma == SqrtRat(VarNum(Xs(pts)) + VarNum(Ys(pts)), 2 * n * n, Digits)
    IN  IF n = 0
        THEN [nan |-> TRUE, sigma |-> 0, ci_lower |-> 0, ci_upper |-> 0,
              confidence |-> Confidences[c]]
        ELSE [nan |-> FALSE,
              sigma |-> Round3(sigma),
              ci_lower |-> Round3((sigma * CiFactor(n, Chi2Upper[c][n])) \div Milli),
              ci_upper |-> Round3((sigma * CiFactor(n, Chi2Lower[c][n])) \div Milli),
              confidence |-> Confidences[c]]

\* n^2 times the covariance sum: n * Sum(x*y) - Sum(x) * Sum(y)
CovNum(pts) ==
    Len(pts) * SumSeq([i \in 1..Len(pts) |-> pts[i][1] * pts[i][2]])
      - SumSeq(Xs(pts)) * SumSeq(Ys(pts))

\* the coverage levels of the ellipse, in percent
Coverages == <<50, 90, 95>>

\* scipy_stats.chi2.ppf(coverage, 2) in milli, by coverage level
Chi2Coverage == <<1386, 4605, 5991>>

\* np.linalg.eigh(np.cov(xs, ys)): the eigenvalues of the 2x2 sample covariance
\* matrix in ascending order, in milli.  With a = VarNum(xs), c = VarNum(ys),
\* b = CovNum, all over n(n - 1): (a + c -+ sqrt((a - c)^2 + 4 b^2)) / (2n(n-1)).
Eigh(pts) ==
    LET n == Len(pts)
        a == VarNum(Xs(pts))
        c == VarNum(Ys(pts))
        b == CovNum(pts)
        root == SqrtRat((a - c) * (a - c) + 4 * b * b, 1, 3)
    IN  << RoundDivSigned((a + c) * Milli - root, 2 * n * (n - 1)),
           RoundDivSigned((a + c) * Milli + root, 2 * n * (n - 1)) >>

\* the order eigh returns, kept: the reversal forgotten
DescendingForgotten(ev) == ev

\* eigenvalues.argsort()[::-1]: the eigenvalues in descending order
Descending(ev) == IF ev[1] >= ev[2] THEN ev ELSE <<ev[2], ev[1]>>

Max(a, b) == IF a >= b THEN a ELSE b

\* math.sqrt(eigenvalue * chi2_val), both in milli, rounded to 3 decimals
SemiAxis(ev, chi2) == Round3(SqrtRat(ev * chi2, 1, 1))

\* compute_confidence_ellipse(xs, ys, coverage), k the row of the coverage.
\* The centre and the semi-axes are in milli; angle_deg and correlation are
\* not modelled.  For n = 0 the centre is NaN (the mean of nothing).
ComputeConfidenceEllipse(pts, k) ==
    LET n == Len(pts)
        ev == Descending(Eigh(pts))
    IN  IF n < 3
        THEN [nan |-> n = 0,
              center_x |-> IF n = 0 THEN 0 ELSE RoundDivSigned(SumSeq(Xs(pts)) * Milli, n),
              center_y |-> IF n = 0 THEN 0 ELSE RoundDivSigned(SumSeq(Ys(pts)) * Milli, n),
              semi_major |-> 0, semi_minor |-> 0, coverage |-> Coverages[k]]
        ELSE [nan |-> FALSE,
              center_x |-> RoundDivSigned(SumSeq(Xs(pts)) * Milli, n),
              center_y |-> RoundDivSigned(SumSeq(Ys(pts)) * Milli, n),
              semi_major |-> SemiAxis(ev[1], Chi2Coverage[k]),
              semi_minor |-> SemiAxis(Max(ev[2], 0), Chi2Coverage[k]),
              coverage |-> Coverages[k]]

\* scipy_stats.chi2.ppf(0.975, 2) = 7.377759, in millionths
Chi2Threshold == 7377759

\* the determinant of n(n - 1) times the sample covariance matrix np.cov(xs, ys)
CovDet(pts) == VarNum(Xs(pts)) * VarNum(Ys(pts)) - CovNum(pts) * CovNum(pts)

\* diff @ cov_inv * diff summed over the row of shot i, as the fraction
\* num / den: the squared Mahalanobis distance of shot i from the mean under
\* the sample covariance
MahalNum(pts, i) ==
    LET n == Len(pts)
        u == n * pts[i][1] - SumSeq(Xs(pts))
        v == n * pts[i][2] - SumSeq(Ys(pts))
    IN  (n - 1) * (VarNum(Ys(pts)) * u * u - 2 * CovNum(pts) * u * v
                     + VarNum(Xs(pts)) * v * v)

MahalDen(pts) == Len(pts) * CovDet(pts)

\* what the robust step can do: the import fails, the fit raises ValueError, or
\* the fit succeeds and mcd.mahalanobis gives distances of its own
RobustOutcomes == {"ImportError", "ValueError", "fit"}

\* mahal_dist > chi2_threshold under the sample covariance
FallbackMask(pts) ==
    {i \in 1..Len(pts) :
        FracGt(MahalNum(pts, i), MahalDen(pts), Chi2Threshold, Milli * Milli)}

\* xs[~flier_mask], ys[~flier_mask]: the shots outside the mask, in order
RECURSIVE Unmasked(_, _, _)
Unmasked(pts, mask, i) ==
    IF i > Len(pts) THEN <<>>
    ELSE (IF i \in mask THEN <<>> ELSE <<pts[i]>>) \o Unmasked(pts, mask, i + 1)

\* the early returns of detect_fliers: no fliers, both sigmas the full DRMS
NoFliers(pts, interp) ==
    [nan |-> Len(pts) = 0, flier_indices |-> {}, flier_count |-> 0, flier_pct |-> 0,
     clean_sigma |-> Round3(DrmsValue(ComputeDrms(pts))),
     full_sigma |-> Round3(DrmsValue(ComputeDrms(pts))),
     interpretation |-> interp]

\* the clean sigma recomputed as long as 2 shots remain
FliersOfMaskKeepingTwo(pts, mask) ==
    LET n == Len(pts)
        k == Cardinality(mask)
        full == DrmsValue(ComputeDrms(pts))
        clean == IF k > 0 /\ k < n - 1
                 THEN DrmsValue(ComputeDrms(Unmasked(pts, mask, 1)))
                 ELSE full
    IN  [nan |-> FALSE, flier_indices |-> mask, flier_count |-> k,
         flier_pct |-> RoundDiv(k * 100 * 10, n),
         clean_sigma |-> Round3(clean), full_sigma |-> Round3(full),
         interpretation |->
            IF k = 0 THEN "No statistical outliers detected"
            ELSE IF k * 100 < 5 * n THEN "isolated execution errors"
            ELSE IF k * 100 < 15 * n THEN "consider form consistency drills"
            ELSE "High flier rate"]

\* the part of detect_fliers after the distances: flier_mask is given
FliersOfMask(pts, mask) ==
    LET n == Len(pts)
        k == Cardinality(mask)
        full == DrmsValue(ComputeDrms(pts))
        clean == IF k > 0 /\ k < n - 2
                 THEN DrmsValue(ComputeDrms(Unmasked(pts, mask, 1)))
                 ELSE full
    IN  [nan |-> FALSE, flier_indices |-> mask, flier_count |-> k,
         flier_pct |-> RoundDiv(k * 100 * 10, n),
         clean_sigma |-> Round3(clean), full_sigma |-> Round3(full),
         interpretation |->
            IF k = 0 THEN "No statistical outliers detected"
            ELSE IF k * 100 < 5 * n THEN "isolated execution errors"
            ELSE IF k * 100 < 15 * n THEN "consider form consistency drills"
            ELSE "High flier rate"]

\* detect_fliers(xs, ys).  robust is what the robust step does and robustMask the
\* shots whose robust distance exceeds the threshold when the fit succeeds;
\* flier_indices are positions 1..n, flier_pct is in tenths of a percent, the
\* sigmas are in milli.
DetectFliers(pts, robust, robustMask) ==
    IF Len(pts) < 5 THEN NoFliers(pts, "Too few shots for flier detection")
    ELSE IF robust = "fit" THEN FliersOfMask(pts, robustMask)
    ELSE IF CovDet(pts) = 0 THEN NoFliers(pts, "Cannot compute - singular covariance")
    ELSE FliersOfMask(pts, FallbackMask(pts))

\* the two shares exchanged: accuracy from the variance
AccuracyPrecisionExchanged(pts) ==
    LET n == Len(pts)
        bias == SumSeq(Xs(pts)) * SumSeq(Xs(pts)) + SumSeq(Ys(pts)) * SumSeq(Ys(pts))
        variance == VarNum(Xs(pts)) + VarNum(Ys(pts))
        total == bias + variance
    IN  IF n = 0
        THEN [nan |-> TRUE, n |-> 0, bias_sq |-> 0, variance |-> 0,
              accuracy_pct |-> 0, precision_pct |-> 0, interpretation |-> "Mixed error"]
        ELSE IF total * Milli < n * n
        THEN [nan |-> FALSE, n |-> n, bias_sq |-> 0, variance |-> 0,
              accuracy_pct |-> 0, precision_pct |-> 0,
              interpretation |-> "Perfect - no error detected"]
        ELSE [nan |-> FALSE, n |-> n, bias_sq |-> bias, variance |-> variance,
              accuracy_pct |-> RoundDiv(variance * 100 * 10, total),
              precision_pct |-> RoundDiv(bias * 100 * 10, total),
              interpretation |->
                 IF variance * 100 > 60 * total THEN "Aim-dominant error"
                 ELSE IF bias * 100 > 60 * total THEN "Consistency-dominant error"
                 ELSE "Mixed error"]

\* compute_accuracy_precision_ratio(xs, ys).  bias_sq and variance are kept
\* exactly, as numerators over n^2 (mpi_x**2 + mpi_y**2 and var_x + var_y);
\* the percentages are in tenths, as round(..., 1) gives them.  An empty
\* group gives NaN throughout, and NaN fails both comparisons.
ComputeAccuracyPrecisionRatio(pts) ==
    LET n == Len(pts)
        bias == SumSeq(Xs(pts)) * SumSeq(Xs(pts)) + SumSeq(Ys(pts)) * SumSeq(Ys(pts))
        variance == VarNum(Xs(pts)) + VarNum(Ys(pts))
        total == bias + variance
    IN  IF n = 0
        THEN [nan |-> TRUE, n |-> 0, bias_sq |-> 0, variance |-> 0,
              accuracy_pct |-> 0, precision_pct |-> 0, interpretation |-> "Mixed error"]
        ELSE IF total * Milli < n * n
        THEN [nan |-> FALSE, n |-> n, bias_sq |-> 0, variance |-> 0,
              accuracy_pct |-> 0, precision_pct |-> 0,
              interpretation |-> "Perfect - no error detected"]
        ELSE [nan |-> FALSE, n |-> n, bias_sq |-> bias, variance |-> variance,
              accuracy_pct |-> RoundDiv(bias * 100 * 10, total),
              precision_pct |-> RoundDiv(variance * 100 * 10, total),
              interpretation |->
                 IF bias * 100 > 60 * total THEN "Aim-dominant error"
                 ELSE IF variance * 100 > 60 * total THEN "Consistency-dominant error"
                 ELSE "Mixed error"]

NoGrpCall ==
    [fn |-> "none", pts |-> <<>>, drms |-> ComputeDrms(<<>>), r95 |-> ComputeR95(<<>>),
     accuracy |-> ComputeAccuracyPrecisionRatio(<<>>),
     rayleigh |-> ComputeRayleighSigmaWithCi(<<>>, 5),
     ellipse |-> ComputeConfidenceEllipse(<<>>, 2),
     robust |-> "ImportError",
     fliers |-> DetectFliers(<<>>, "ImportError", {})]

(***************************************************************************)
(* src/src/precision.py: compute_ewma.  The values of a series are held in *)
(* ten-thousandths (the unit the results are rounded to), lam in tenths;   *)
(* intermediate results keep three more digits (1e-7).                     *)
(***************************************************************************)

\* L = 2.7, the control limit multiplier, in tenths
L == 27

\* 1e6: the unit of (1 - lam) ** (2 * (i + 1))
Mega == 1000000

\* np.mean(arr), in 1e-7
EwmaMean(values) == RoundDiv(SumSeq(values) * Milli, Len(values))

\* np.std(arr, ddof=1), in 1e-7
EwmaSigma(values) ==
    SqrtRat(VarNum(values), Len(values) * (Len(values) - 1), 3)

\* (1 - lam) ** (2 * t), in 1e-6
RECURSIVE Decay(_, _)
Decay(l, t) ==
    IF t = 0 THEN Mega ELSE RoundDiv(Decay(l, t - 1) * (10 - l) * (10 - l), 100)

\* sigma * math.sqrt(lam / (2 - lam) * (1 - (1 - lam) ** (2 * t))), in 1e-7
Factor(sigma, l, t) ==
    RoundDiv(sigma * SqrtRat(RoundDiv(l * (Mega - Decay(l, t)), 20 - l), 1, 1),
             10 * Milli)

\* the limits exchanged: mu - sign * L * factor
ControlLimitSwapped(mu, factor, sign) ==
    RoundDivSigned(10 * mu - sign * L * factor, 10 * Milli)

\* round(mu + sign * L * factor, 4), in 1e-4
ControlLimit(mu, factor, sign) ==
    RoundDivSigned(10 * mu + sign * L * factor, 10 * Milli)

\* the recursion seeded at 0 instead of the series mean
RECURSIVE EwmaAtZeroSeed(_, _, _)
EwmaAtZeroSeed(values, l, t) ==
    IF t = 0 THEN 0
    ELSE RoundDiv(l * values[t] * Milli + (10 - l) * EwmaAtZeroSeed(values, l, t - 1), 10)

\* ewma_t after the first t values, in 1e-7: lam * x + (1 - lam) * ewma_t
RECURSIVE EwmaAt(_, _, _)
EwmaAt(values, l, t) ==
    IF t = 0 THEN EwmaMean(values)
    ELSE RoundDiv(l * values[t] * Milli + (10 - l) * EwmaAt(values, l, t - 1), 10)

\* compute_ewma(values, lam)
ComputeEwma(values, l) ==
    LET n == Len(values)
    IN  IF n < 2
        THEN [ewma |-> values, ucl |-> values, lcl |-> values,
              mean |-> IF n = 0 THEN 0 ELSE values[1], sigma |-> 0]
        ELSE [ewma |-> [t \in 1..n |-> RoundDiv(EwmaAt(values, l, t), Milli)],
              ucl |-> [t \in 1..n |->
                         ControlLimit(EwmaMean(values), Factor(EwmaSigma(values), l, t), 1)],
              lcl |-> [t \in 1..n |->
                         ControlLimit(EwmaMean(values), Factor(EwmaSigma(values), l, t), -1)],
              mean |-> RoundDiv(EwmaMean(values), Milli),
              sigma |-> RoundDiv(EwmaSigma(values), Milli)]

\* sorted(shots_by_position.keys())
RECURSIVE SortedKeys(_)
SortedKeys(keys) ==
    IF keys = {} THEN <<>>
    ELSE LET first == CHOOSE k \in keys : \A j \in keys : k <= j
         IN  <<first>> \o SortedKeys(keys \ {first})

\* one entry of positions: avg_score in thousandths, round(float(np.mean(scores)), 3);
\* the mean of no scores is NaN
PositionEntry(pos, scores) ==
    [position |-> pos + 1,
     nan |-> Len(scores) = 0,
     avg_score |-> IF Len(scores) = 0 THEN 0
                   ELSE RoundDiv(SumSeq(scores) * Milli, Len(scores)),
     count |-> Len(scores)]

\* a["avg_score"] > b["avg_score"]: false when either is NaN
AvgGreater(a, b) == ~a.nan /\ ~b.nan /\ a.avg_score > b.avg_score

\* the first entry in place of the best
MaxByAvgFirst(results) == results[1]

\* max(results, key=lambda r: r["avg_score"]): the running maximum is replaced
\* only by a strictly greater key, so the first of equal maxima is kept
RECURSIVE MaxByAvg(_)
MaxByAvg(results) ==
    IF Len(results) = 1 THEN results[1]
    ELSE LET before == MaxByAvg(SubSeq(results, 1, Len(results) - 1))
             last == results[Len(results)]
         IN  IF AvgGreater(last, before) THEN last ELSE before

\* min(results, key=lambda r: r["avg_score"])
RECURSIVE MinByAvg(_)
MinByAvg(results) ==
    IF Len(results) = 1 THEN results[1]
    ELSE LET before == MinByAvg(SubSeq(results, 1, Len(results) - 1))
             last == results[Len(results)]
         IN  IF AvgGreater(before, last) THEN last ELSE before

\* compute_within_end_trend(shots_by_position); shots_by_position is a function
\* from 0-based positions to sequences of scores
ComputeWithinEndTrend(shots_by_position) ==
    IF DOMAIN shots_by_position = {}
    THEN [positions |-> <<>>, best_position |-> 0, worst_position |-> 0,
          interpretation |-> "No data"]
    ELSE LET keys == SortedKeys(DOMAIN shots_by_position)
             results == [i \in 1..Len(keys) |->
                            PositionEntry(keys[i], shots_by_position[keys[i]])]
             best == MaxByAvg(results)
             worst == MinByAvg(results)
         IN  [positions |-> results,
              best_position |-> best.position,
              worst_position |-> worst.position,
              interpretation |->
                 IF ~best.nan /\ ~worst.nan
                      /\ (best.avg_score - worst.avg_score) * 10 < 2 * Milli
                 THEN "Consistent across all shot positions"
                 ELSE IF worst.position = 1 THEN "First arrow is weakest"
                 ELSE IF worst.position = results[Len(results)].position
                 THEN "Last arrow is weakest"
                 ELSE "Shot is weakest"]

\* the within-end endpoint: every end's shots, in shooting order, are appended
\* to the list of their index
ShotsByPosition(ends) ==
    LET lengths == {0} \cup {Len(ends[e]) : e \in 1..Len(ends)}
        longest == CHOOSE l \in lengths : \A m \in lengths : l >= m
        Column(idx) ==
            LET F[e \in 0..Len(ends)] ==
                    IF e = 0 THEN <<>>
                    ELSE IF Len(ends[e]) > idx THEN Append(F[e - 1], ends[e][idx + 1])
                    ELSE F[e - 1]
            IN  F[Len(ends)]
    IN  [idx \in 0..(longest - 1) |-> Column(idx)]

NoEwmaCall ==
    [fn |-> "none", values |-> <<>>, lam |-> 2, result |-> ComputeEwma(<<>>, 2),
     ends |-> <<>>, trend |-> ComputeWithinEndTrend(<<>>)]

(***************************************************************************)
(* src/src/precision.py: compute_hit_probability.  sigma and mpi are held  *)
(* in hundredths of a centimetre, the samples and the radii in milli.  A   *)
(* generator is a state of a small linear congruential sequence; a         *)
(* standard normal deviate is read off the state from a table of           *)
(* quantiles.                                                              *)
(***************************************************************************)

\* hundredths per centimetre
Centi == 100

\* the seed of np.random.default_rng(42)
Seed == 42

\* the state after one draw
NextState(s) == (75 * s + 74) % 65537

\* the standard normal deviate of a state, in milli
ZTable == <<-1534, -887, -489, -157, 157, 489, 887, 1534>>

\* the generator seeded from the process-global state instead
NewGeneratorGlobal(global) == global

\* np.random.default_rng(42): a new generator, whatever the global state is
NewGenerator(global) == Seed

\* the state of a generator after n draws
RECURSIVE Advance(_, _)
Advance(s, n) == IF n = 0 THEN s ELSE Advance(NextState(s), n - 1)

\* rng.normal(loc, scale, n), in milli: loc + scale * z for n deviates z
Normal(gen, loc, scale, n) ==
    [i \in 1..n |->
        RoundDivSigned(loc * Milli + scale * ZTable[(Advance(gen, i) % Len(ZTable)) + 1],
                       Centi)]

\* ring_width = face_size_cm / 20.0, in milli
RingWidth(face) == (face * Milli) \div 20

\* every bin starting at the centre
InnerRZero(ring_val, w) == 0

\* inner_r of the bin of ring_val
InnerR(ring_val, w) == IF ring_val < 10 THEN (10 - ring_val) * w ELSE 0

\* np.sum((radii >= inner_r) & (radii < outer_r)) for a ring,
\* np.sum(radii >= outer_r) for the miss bin (ring_val = 0)
BinCount(radii, ring_val, w) ==
    IF ring_val = 0
    THEN Cardinality({i \in DOMAIN radii : radii[i] >= 10 * w})
    ELSE Cardinality({i \in DOMAIN radii :
                         /\ radii[i] >= InnerR(ring_val, w)
                         /\ radii[i] < (11 - ring_val) * w})

\* compute_hit_probability with n_samples = n and the generator gen.
\* probability is in hundredths of a percent, expected_score in milli; count
\* is the bin's count, which the code does not return.
HitProbabilityOf(a, gen, n) ==
    LET sx == IF a.sigma_x < 1 THEN 1 ELSE a.sigma_x
        sy == IF a.sigma_y < 1 THEN 1 ELSE a.sigma_y
        samples_x == Normal(gen, a.mpi_x, sx, n)
        samples_y == Normal(Advance(gen, n), a.mpi_y, sy, n)
        radii == [i \in 1..n |->
                     Isqrt(samples_x[i] * samples_x[i] + samples_y[i] * samples_y[i])]
        ring_probs == [k \in 1..11 |->
                         LET ring_val == IF k = 11 THEN 0 ELSE 11 - k
                             count == BinCount(radii, ring_val, RingWidth(a.face))
                         IN  [ring |-> ring_val, count |-> count,
                              probability |-> RoundDiv(count * 100 * Centi, n)]]
    IN  [ring_probs |-> ring_probs,
         expected_score |->
            RoundDiv(SumSeq([k \in 1..11 |->
                               ring_probs[k].ring * ring_probs[k].probability]), 10)]

NoArgs == [sigma_x |-> 0, sigma_y |-> 0, mpi_x |-> 0, mpi_y |-> 0, face |-> 40]

NoHitCall == [fn |-> "none", args |-> NoArgs, rng |-> 0]

NoGlobalUse == [state |-> 0, uses |-> 0]

(***************************************************************************)
(* src/src/precision.py: compute_equipment_comparison.  A series holds     *)
(* its values in tenths; differences and Cohen's d are in milli.  A        *)
(* p-value is held as what is known of it: "one" (exactly 1.0), "zero"     *)
(* (exactly 0.0), "nan", "below" (under 0.05) or "above" (0.05 or more).   *)
(***************************************************************************)

\* scipy_stats.t.ppf(0.975, df) ** 2 in milli, for df = 1..10: a two-sided
\* p-value is below 0.05 exactly when t^2 exceeds it
TCritSq == <<161447, 18513, 10128, 7709, 6608, 5987, 5591, 5318, 5117, 4965>>

Min(a, b) == IF a <= b THEN a ELSE b

\* n^2 (n - 1): VarNum(xs) / WelchDen(n) is the sample variance over n
WelchDen(n) == n * n * (n - 1)

\* the numerator of mean(a) - mean(b) over the denominator Len(a) * Len(b)
MeanDiffNum(a, b) == SumSeq(a) * Len(b) - SumSeq(b) * Len(a)

\* what scipy_stats.ttest_ind(a, b, equal_var=False) can give as p-value for
\* two series of 2 or more values.  With vn = var / n of each series:
\* t = d / sqrt(vn_a + vn_b), df = (vn_a + vn_b)^2 / (vn_a^2/(n_a-1) + vn_b^2/(n_b-1)).
\* The critical value falls as df grows, so t^2 above the value at floor(df)
\* is significant and t^2 not above the value at ceil(df) is not; between the
\* two the table does not decide.
TtestInd(a, b) ==
    LET na == Len(a)
        nb == Len(b)
        P == VarNum(a) * WelchDen(nb)
        Q == VarNum(b) * WelchDen(na)
        d == MeanDiffNum(a, b)
        tnum == d * d * WelchDen(na) * WelchDen(nb)
        tden == na * na * nb * nb * (P + Q)
        dfnum == (na - 1) * (nb - 1) * (P + Q) * (P + Q)
        dfden == (nb - 1) * P * P + (na - 1) * Q * Q
        lo == Min(dfnum \div dfden, Len(TCritSq))
        hi == Min(CeilDiv(dfnum, dfden), Len(TCritSq))
    IN  IF P + Q = 0 THEN (IF d = 0 THEN {"nan"} ELSE {"zero"})
        ELSE IF d = 0 THEN {"one"}
        ELSE IF FracGt(tnum, tden, TCritSq[lo], Milli) THEN {"below"}
        ELSE IF ~FracGt(tnum, tden, TCritSq[hi], Milli) THEN {"above"}
        ELSE {"below", "above"}

\* the comparison turned round: p >= 0.05
SignificantInverted(p) == p \in {"one", "above"}

\* p < 0.05 (False for nan)
Significant(p) == p \in {"zero", "below"}

\* np.mean(a) - np.mean(b), rounded to 3 decimals; NaN when a series is empty
MeanDiff(a, b) ==
    IF Len(a) = 0 \/ Len(b) = 0 THEN [nan |-> TRUE, v |-> 0]
    ELSE [nan |-> FALSE, v |-> RoundDivSigned(MeanDiffNum(a, b) * 100, Len(a) * Len(b))]

\* score_diff / pooled_std, in milli, 0 when pooled_std <= 0.001
CohensD(a, b) ==
    LET na == Len(a)
        nb == Len(b)
        num == VarNum(a) * nb * (nb - 1) + VarNum(b) * na * (na - 1)
        den == 2 * na * (na - 1) * nb * (nb - 1)
        pooled == SqrtRat(num, den, 3)
    IN  IF num = 0 THEN 0
        ELSE RoundDivSigned(MeanDiffNum(a, b) * Milli * Milli, na * nb * pooled)

\* the early return: a score series with fewer than 2 values
InsufficientData ==
    [score_diff |-> [nan |-> FALSE, v |-> 0], score_p_value |-> "one",
     score_cohens_d |-> 0,
     sigma_diff |-> [nan |-> FALSE, v |-> 0], sigma_p_value |-> "one",
     score_significant |-> FALSE, sigma_significant |-> FALSE,
     interpretation |-> "Need >=2 sessions with each setup for comparison",
     tighter |-> "none"]

\* the p-values compute_equipment_comparison can get for the sigma series
SigmaPValues(a_sig, b_sig) ==
    IF Len(a_sig) >= 2 /\ Len(b_sig) >= 2 THEN TtestInd(a_sig, b_sig) ELSE {"one"}

\* compute_equipment_comparison, given the p-values of the two t-tests
ComputeEquipmentComparison(a_scores, a_sig, b_scores, b_sig, p_score, p_sigma) ==
    IF Len(a_scores) < 2 \/ Len(b_scores) < 2 THEN InsufficientData
    ELSE LET score_diff == MeanDiff(a_scores, b_scores)
             sigma_diff == MeanDiff(a_sig, b_sig)
             score_sig == Significant(p_score)
             sigma_sig == Significant(p_sigma)
         IN  [score_diff |-> score_diff, score_p_value |-> p_score,
              score_cohens_d |-> CohensD(a_scores, b_scores),
              sigma_diff |-> sigma_diff, sigma_p_value |-> p_sigma,
              score_significant |-> score_sig, sigma_significant |-> sigma_sig,
              interpretation |->
                 IF score_sig /\ score_diff.v > 0 THEN "A scores significantly higher"
                 ELSE IF score_sig /\ score_diff.v < 0 THEN "B scores significantly higher"
                 ELSE "No significant scoring difference",
              tighter |->
                 IF ~sigma_sig THEN "none"
                 ELSE IF ~sigma_diff.nan /\ sigma_diff.v < 0 THEN "A" ELSE "B"]

NoCmpCall ==
    [fn |-> "none", a_scores |-> <<>>, a_sigmas |-> <<>>, b_scores |-> <<>>,
     b_sigmas |-> <<>>, result |-> InsufficientData]

(***************************************************************************)
(* src/src/park_model.py.  A score is held in millionths of a point.  A    *)
(* sigma is held in SigmaUnits-ths of the 200 cm the binary search starts  *)
(* from, so that the first 20 midpoints of the search are exact.           *)
(***************************************************************************)

\* sigma units per 200 cm (2^20)
SigmaUnits == 1048576

\* high = 200.0, the upper end of the binary search, in centimetres
SearchHigh == 200

\* the number of iterations of the binary search
Iterations == 50

\* tolerance = 0.001, in millionths
Tolerance == 1000

\* the sentinel 1000.0 (cm) for a score of 0 or less, in sigma units
MassiveSpread == (1000 * SigmaUnits) \div SearchHigh

\* the remainder that goes with FixDiv
RECURSIVE FixRem(_, _, _)
FixRem(n, den, k) ==
    IF k = 0 THEN n % den ELSE (FixRem(n, den, k - 1) * 10) % den

\* floor(n * 10^k / den) by long division (n >= 0, den > 0)
RECURSIVE FixDiv(_, _, _)
FixDiv(n, den, k) ==
    IF k = 0 THEN n \div den
    ELSE LET q == FixDiv(n, den, k - 1)
             r == FixRem(n, den, k - 1)
         IN  q * 10 + (r * 10) \div den

\* a * b for two numbers in millionths, in millionths, by the digit pairs of b
MulMega(a, b) ==
    (a * (b % 100)) \div Mega + (a * ((b \div 100) % 100)) \div 10000
      + (a * ((b \div 10000) % 100)) \div 100 + a * (b \div Mega)

\* math.exp(-k) for k = 0, 1, 2, ..., in millionths
ExpNegInt == <<1000000, 367879, 135335, 49787, 18316, 6738, 2479, 912, 335, 123, 45, 17, 6, 2, 1, 0, 0, 0>>

\* the series of math.exp(-f) for 0 <= f < 1 from term j on, in Horner form
RECURSIVE ExpSeries(_, _)
ExpSeries(f, j) ==
    IF j > 10 THEN Mega ELSE Mega - MulMega(f, ExpSeries(f, j + 1)) \div j

\* math.exp(-x), x and the result in millionths
ExpNeg(x) ==
    IF x \div Mega >= Len(ExpNegInt) THEN 0
    ELSE MulMega(ExpNegInt[(x \div Mega) + 1], ExpSeries(x % Mega, 1))

\* prob_outside = math.exp(-(r**2) / (2 * (sigma_r**2))) for r = radii[i - 1]
\* = i * face / 20 cm: r / sigma = i * face * 2^15 / (125 * sigma units); 0
\* from r = 6 sigma on (below 2e-8)
ProbOutside(i, face, sigma) ==
    IF i * face * 32768 >= 6 * 125 * sigma THEN 0
    ELSE LET q == FixDiv(i * face * 32768, 125 * sigma, 6)
         IN  ExpNeg(MulMega(q, q) \div 2)

\* calculate_expected_score(sigma_r, face_diameter_cm)
CalculateExpectedScore(sigma, face) ==
    IF sigma <= 0 THEN 10 * Mega
    ELSE 10 * Mega - SumSeq([i \in 1..10 |-> ProbOutside(i, face, sigma)])

\* one iteration that moves high one step up instead of onto mid
SearchIterationWidening(score, face, low, high) ==
    LET mid == (low + high) \div 2
        predicted == CalculateExpectedScore(mid, face)
    IN  [mid |-> mid, found |-> Abs(predicted - score) < Tolerance,
         low |-> IF predicted > score THEN mid ELSE low,
         high |-> IF predicted > score THEN high ELSE high + 1]

\* one iteration of the loop of calculate_sigma_from_score on the bounds low
\* and high: the midpoint, whether it is returned, and the bounds after it
SearchIteration(score, face, low, high) ==
    LET mid == (low + high) \div 2
        predicted == CalculateExpectedScore(mid, face)
    IN  [mid |-> mid, found |-> Abs(predicted - score) < Tolerance,
         low |-> IF predicted > score THEN mid ELSE low,
         high |-> IF predicted > score THEN high ELSE mid]

\* the midpoint of the first bounds, returned without the loop
BinarySearchNoLoop(score, face, low, high, n) == (low + high) \div 2

\* n iterations of the loop from the bounds s.low and s.high, none after a
\* midpoint has been returned; the iterations are run as two halves, one
\* after the other
RECURSIVE SearchRun(_, _, _, _)
SearchRun(score, face, s, n) ==
    IF s.found \/ n = 0 THEN s
    ELSE IF n = 1 THEN SearchIteration(score, face, s.low, s.high)
    ELSE SearchRun(score, face, SearchRun(score, face, s, n \div 2), n - n \div 2)

\* the loop of calculate_sigma_from_score with n iterations left: the
\* midpoint that came within the tolerance, or the midpoint of the last bounds
BinarySearch(score, face, low, high, n) ==
    LET s == SearchRun(score, face,
                       [mid |-> 0, found |-> FALSE, low |-> low, high |-> high], n)
    IN  IF s.found THEN s.mid ELSE (s.low + s.high) \div 2

\* the early returns swapped
CalculateSigmaFromScoreSwapped(score, face) ==
    IF score >= 10 * Mega THEN MassiveSpread
    ELSE IF score <= 0 THEN 0
    ELSE BinarySearch(score, face, 0, SigmaUnits, Iterations)

\* calculate_sigma_from_score(score, face_diameter_cm)
CalculateSigmaFromScore(score, face) ==
    IF score >= 10 * Mega THEN 0
    ELSE IF score <= 0 THEN MassiveSpread
    ELSE BinarySearch(score, face, 0, SigmaUnits, Iterations)

\* whether the float calculate_expected_score returns for a sigma > 0 is
\* exactly 10.0: no, when the model sees a loss; yes, when the first ring lies
\* 9 sigma out (a loss below 1e-16); either, in between
ExactlyTen(sigma, face) ==
    IF CalculateExpectedScore(sigma, face) < 10 * Mega THEN {FALSE}
    ELSE IF face * 32768 >= 9 * 125 * sigma THEN {TRUE}
    ELSE {TRUE, FALSE}

\* calculate_sigma_from_score(calculate_expected_score(sigma, face), face),
\* exactly_ten telling whether the score in between is exactly 10.0
RoundTrip(sigma, face, exactly_ten) ==
    LET score == CalculateExpectedScore(sigma, face)
    IN  IF score >= 10 * Mega /\ ~exactly_ten
        THEN BinarySearch(score, face, 0, SigmaUnits, Iterations)
        ELSE CalculateSigmaFromScore(score, face)

\* low, mid, high and iter are the locals of the binary search while its loop
\* runs (iter counts the iterations begun)
NoParkCall ==
    [fn |-> "none", sigma |-> 0, face |-> 0, score |-> 0, result |-> 0,
     low |-> 0, mid |-> 0, high |-> 0, iter |-> 0]

(***************************************************************************)
(* Crawl regression (src/src/crawls.py).  Distances are counted in units   *)
(* of DistUnit metres and crawls in millimetres.  A fitted polynomial is   *)
(* its integer coefficients over one common positive denominator, highest  *)
(* power first, as np.poly1d keeps them.                                   *)
(***************************************************************************)
DistUnit == 10

\* the plausible distance range of find_point_on_distance, in metres
RangeLow == 5
RangeHigh == 100

RECURSIVE XPow(_, _)
XPow(x, k) == IF k = 0 THEN 1 ELSE x * XPow(x, k - 1)

RECURSIVE Gcd(_, _)
Gcd(a, b) == IF b = 0 THEN Abs(a) ELSE Gcd(b, a % Abs(b))

Sgn(a) == IF a > 0 THEN 1 ELSE IF a < 0 THEN -1 ELSE 0

\* np.polyfit(x, y, deg): the least-squares polynomial, by Cramer's rule on
\* the normal equations, in lowest terms; an empty x raises TypeError.  The
\* calibration distances are distinct, so the equations have one solution.
Polyfit(xs, ys, deg) ==
    LET \* sum of x^k * w over the calibration points
        RECURSIVE Moment(_, _, _)
        Moment(us, ws, k) ==
            IF us = <<>> THEN 0
            ELSE XPow(Head(us), k) * Head(ws) + Moment(Tail(us), Tail(ws), k)
        S(k) == Moment(xs, [i \in 1..Len(xs) |-> 1], k)
        T(k) == Moment(xs, ys, k)
        Det3(m) ==
              m[1][1] * (m[2][2] * m[3][3] - m[2][3] * m[3][2])
            - m[1][2] * (m[2][1] * m[3][3] - m[2][3] * m[3][1])
            + m[1][3] * (m[2][1] * m[3][2] - m[2][2] * m[3][1])
        RECURSIVE GcdAll(_, _)
        GcdAll(s, g) == IF s = <<>> THEN g ELSE GcdAll(Tail(s), Gcd(Head(s), g))
        Reduced(nums, den) ==
            [raised |-> FALSE,
             coefficients |-> [i \in 1..Len(nums) |->
                                  (Sgn(den) * nums[i]) \div GcdAll(nums, den)],
             den |-> Abs(den) \div GcdAll(nums, den)]
        M == <<<<S(4), S(3), S(2)>>, <<S(3), S(2), S(1)>>, <<S(2), S(1), S(0)>>>>
        rhs == <<T(2), T(1), T(0)>>
        Col(j) == [r \in 1..3 |-> [c \in 1..3 |-> IF c = j THEN rhs[r] ELSE M[r][c]]]
    IN  IF Len(xs) = 0 THEN [raised |-> TRUE, coefficients |-> <<>>, den |-> 1]
        ELSE IF deg = 0 THEN Reduced(<<T(0)>>, S(0))
        ELSE IF deg = 1 THEN
            Reduced(<<S(0) * T(1) - S(1) * T(0), S(2) * T(0) - S(1) * T(1)>>,
                    S(0) * S(2) - S(1) * S(1))
        ELSE Reduced(<<Det3(Col(1)), Det3(Col(2)), Det3(Col(3))>>, Det3(M))

\* np.poly1d drops leading zero coefficients and keeps at least one
RECURSIVE Poly1d(_)
Poly1d(c) == IF Len(c) > 1 /\ Head(c) = 0 THEN Poly1d(Tail(c)) ELSE c

\* the degree handed to np.polyfit, against a fit that never asks for more
\* than a line
DegreeLinear(n) == IF n > 1 THEN 1 ELSE 0

Degree(n) == IF n < 3 THEN (IF n > 1 THEN 1 ELSE 0) ELSE 2

\* calculate_crawl_regression(known_distances, known_crawls)
CalculateCrawlRegression(known_distances, known_crawls) ==
    LET degree == Degree(Len(known_distances))
        fit == Polyfit(known_distances, known_crawls, degree)
    IN  [raised |-> fit.raised, degree |-> degree,
         coefficients |-> IF fit.raised THEN <<>> ELSE Poly1d(fit.coefficients),
         den |-> fit.den]

\* the numerator of p(l / q) over den * q^order
RECURSIVE EvalAt(_, _, _)
EvalAt(c, l, q) ==
    IF Len(c) = 1 THEN c[1]
    ELSE Head(c) * XPow(l, Len(c) - 1) + q * EvalAt(Tail(c), l, q)

\* predict_crawl(model, distance) at the distance l / q: an exact fraction;
\* against the evaluation that takes l for the distance
PredictCrawlUnscaled(model, l, q) ==
    [num |-> EvalAt(model.coefficients, l, 1), den |-> model.den]

PredictCrawl(model, l, q) ==
    [num |-> EvalAt(model.coefficients, l, q),
     den |-> model.den * XPow(q, Len(model.coefficients) - 1)]

\* the sign of sqrt(D) - W / q, for q > 0
SqrtCmp(D, W, q) ==
    IF W < 0 THEN 1
    ELSE LET s0 == Isqrt(D)
             k1 == W \div q
             f == W % q
         IN  IF s0 > k1 THEN 1
             ELSE IF s0 < k1 THEN -1
             ELSE Sgn((D - s0 * s0) * q * q - (2 * s0 * f * q + f * f))

\* the sign of r - p / q for the root r = (-b + e * sqrt(D)) / (2a), q > 0
RootCmp(r, p, q) ==
    LET W == 2 * r.a * p + q * r.b
    IN  Sgn(r.a) * (IF r.e = 1 THEN SqrtCmp(r.D, W, q) ELSE -SqrtCmp(r.D, -W, q))

\* a parabola with a double root, where the solver's rounding decides
DoubleRoot(c) == Len(c) = 3 /\ c[2] * c[2] = 4 * c[1] * c[3]

\* find_point_on_distance(model): None, or the rounded smallest valid root.
\* np.roots gives no root for a constant, one for a line and the two of the
\* quadratic formula for a parabola; a double root comes out of the
\* eigenvalue solver either real or as a conjugate pair with a rounding-size
\* imaginary part, which np.isreal rejects.
FindPointOnDistance(model, complex_pair) ==
    LET c == model.coefficients
        D == c[2] * c[2] - 4 * c[1] * c[3]
        Root(e) == [a |-> c[1], b |-> c[2], D |-> D, e |-> e]
        \* the real roots, smallest first
        roots ==
            IF Len(c) = 1 THEN <<>>
            ELSE IF Len(c) = 2 THEN <<[a |-> c[1], b |-> 2 * c[2], D |-> 0, e |-> 1]>>
            ELSE IF D < 0 \/ (D = 0 /\ complex_pair) THEN <<>>
            ELSE IF D = 0 THEN <<Root(1)>>
            ELSE <<Root(-Sgn(c[1])), Root(Sgn(c[1]))>>
        \* 5.0 <= real_val <= 100.0
        ValidRoot(r) ==
            /\ RootCmp(r, RangeLow, DistUnit) >= 0
            /\ RootCmp(r, RangeHigh, DistUnit) <= 0
        valid_roots == SelectSeq(roots, ValidRoot)
        \* round(r, 1), in tenths of a metre
        RECURSIVE RoundedBetween(_, _, _)
        RoundedBetween(r, lo, hi) ==
            IF lo = hi THEN lo
            ELSE LET mid == (lo + hi + 1) \div 2
                 IN  IF RootCmp(r, 2 * mid - 1, 2 * 10 * DistUnit) >= 0
                     THEN RoundedBetween(r, mid, hi)
                     ELSE RoundedBetween(r, lo, mid - 1)
    IN  IF valid_roots = <<>> THEN [none |-> TRUE, tenths |-> 0]
        ELSE [none |-> FALSE,
              tenths |-> RoundedBetween(Head(valid_roots), 10 * RangeLow, 10 * RangeHigh)]

\* generate_crawl_chart(model, min_dist, max_dist, step), distances in the unit
\* of the known distances: (d, round(crawl, 1)) with the crawl in tenths
GenerateCrawlChart(model, min_dist, max_dist, step) ==
    LET count == IF max_dist < min_dist THEN 0 ELSE (max_dist - min_dist) \div step + 1
    IN  [i \in 1..count |->
            LET d == min_dist + (i - 1) * step
                crawl == PredictCrawl(model, d, 1)
            IN  [distance |-> d, crawl_mm |-> RoundDivSigned(crawl.num * 10, crawl.den)]]

\* a validation that compares the lengths only
ValidateLengthsOnly(distances, crawls) ==
    IF Len(distances) # Len(crawls) THEN 422 ELSE 200

\* _validate_crawl_lists(distances, crawls): the status of the HTTPException
\* it raises, 200 when it returns
ValidateCrawlLists(distances, crawls) ==
    IF Len(distances) < 2 THEN 422
    ELSE IF Len(distances) # Len(crawls) THEN 422
    ELSE 200

NoCrawlCall ==
    [fn |-> "none", known_distances |-> <<>>, known_crawls |-> <<>>,
     status |-> 0, computed |-> {}, chart |-> <<>>,
     model |-> [raised |-> FALSE, degree |-> 0, coefficients |-> <<>>, den |-> 1],
     target |-> 0, prediction |-> [num |-> 0, den |-> 1],
     complex_pair |-> FALSE,
     point_on |-> [none |-> TRUE, tenths |-> 0]]

(***************************************************************************)
(* Round presets (rounds.py).  A name is a sequence of characters.         *)
(***************************************************************************)
UpperLetters == <<"A", "B", "C", "D", "E", "F", "G", "H", "I", "J", "K", "L", "M", "N", "O", "P", "Q", "R", "S", "T", "U", "V", "W", "X", "Y", "Z">>
LowerLetters == <<"a", "b", "c", "d", "e", "f", "g", "h", "i", "j", "k", "l", "m", "n", "o", "p", "q", "r", "s", "t", "u", "v", "w", "x", "y", "z">>

\* str.lower() on the characters the round names are written in
LowerChar(c) ==
    IF \E i \in 1..Len(UpperLetters) : UpperLetters[i] = c
    THEN LowerLetters[CHOOSE i \in 1..Len(UpperLetters) : UpperLetters[i] = c]
    ELSE c

StrLower(name) == [i \in 1..Len(name) |-> LowerChar(name[i])]

\* _ROUND_PRESETS, in the order of the registry; of a preset the key and the
\* fields get_max_score reads
ROUND_PRESETS ==
    <<
        [key |-> <<"W", "A", " ", "1", "8", "m", " ", "(", "I", "n", "d", "o", "o", "r", ")">>,
         arrow_count |-> 60, max_score |-> 600, scoring_type |-> "wa"],
        [key |-> <<"W", "A", " ", "2", "5", "m", " ", "(", "I", "n", "d", "o", "o", "r", ")">>,
         arrow_count |-> 60, max_score |-> 600, scoring_type |-> "wa"],
        [key |-> <<"P", "o", "r", "t", "s", "m", "o", "u", "t", "h">>,
         arrow_count |-> 60, max_score |-> 600, scoring_type |-> "wa"],
        [key |-> <<"B", "r", "a", "y", " ", "I">>,
         arrow_count |-> 30, max_score |-> 300, scoring_type |-> "wa"],
        [key |-> <<"B", "r", "a", "y", " ", "I", "I">>,
         arrow_count |-> 30, max_score |-> 300, scoring_type |-> "wa"],
        [key |-> <<"L", "a", "n", "c", "a", "s", "t", "e", "r", " ", "Q", "u", "a", "l", "i">>,
         arrow_count |-> 60, max_score |-> 600, scoring_type |-> "wa"],
        [key |-> <<"I", "F", "A", "A", " ", "F", "l", "i", "n", "t", " ", "(", "I", "n", "d", "o", "o", "r", ")">>,
         arrow_count |-> 56, max_score |-> 280, scoring_type |-> "flint"],
        [key |-> <<"W", "A", " ", "3", "0", "m">>,
         arrow_count |-> 36, max_score |-> 360, scoring_type |-> "wa"],
        [key |-> <<"W", "A", " ", "4", "0", "m">>,
         arrow_count |-> 36, max_score |-> 360, scoring_type |-> "wa"],
        [key |-> <<"W", "A", " ", "5", "0", "m", " ", "(", "B", "a", "r", "e", "b", "o", "w", ")">>,
         arrow_count |-> 72, max_score |-> 720, scoring_type |-> "wa"],
        [key |-> <<"W", "A", " ", "6", "0", "m">>,
         arrow_count |-> 36, max_score |-> 360, scoring_type |-> "wa"],
        [key |-> <<"W", "A", " ", "7", "0", "m", " ", "(", "R", "e", "c", "u", "r", "v", "e", ")">>,
         arrow_count |-> 72, max_score |-> 720, scoring_type |-> "wa"],
        [key |-> <<"H", "a", "l", "f", " ", "W", "A", " ", "5", "0", "m">>,
         arrow_count |-> 36, max_score |-> 360, scoring_type |-> "wa"],
        [key |-> <<"N", "a", "t", "i", "o", "n", "a", "l", " ", "(", "B", "a", "r", "e", "b", "o", "w", ")">>,
         arrow_count |-> 48, max_score |-> 480, scoring_type |-> "wa"],
        [key |-> <<"S", "h", "o", "r", "t", " ", "N", "a", "t", "i", "o", "n", "a", "l">>,
         arrow_count |-> 48, max_score |-> 480, scoring_type |-> "wa"],
        [key |-> <<"P", "r", "a", "c", "t", "i", "c", "e", " ", "(", "3", "0", " ", "a", "r", "r", "o", "w", "s", ")">>,
         arrow_count |-> 30, max_score |-> 300, scoring_type |-> "wa"],
        [key |-> <<"W", "A", " ", "1", "8", "m">>,
         arrow_count |-> 60, max_score |-> 600, scoring_type |-> "wa"],
        [key |-> <<"W", "A", " ", "2", "5", "m">>,
         arrow_count |-> 60, max_score |-> 600, scoring_type |-> "wa"],
        [key |-> <<"W", "A", " ", "5", "0", "m">>,
         arrow_count |-> 72, max_score |-> 720, scoring_type |-> "wa"],
        [key |-> <<"I", "n", "d", "o", "o", "r", " ", "F", "i", "e", "l", "d">>,
         arrow_count |-> 60, max_score |-> 300, scoring_type |-> "field"],
        [key |-> <<"F", "l", "i", "n", "t">>,
         arrow_count |-> 56, max_score |-> 280, scoring_type |-> "flint"]
    >>

NoPreset == [key |-> <<>>, arrow_count |-> -1, max_score |-> -1, scoring_type |-> "None"]

\* a lookup that compares the names as they are written
GetRoundPresetExact(name) ==
    IF \E i \in 1..Len(ROUND_PRESETS) : ROUND_PRESETS[i].key = name
    THEN ROUND_PRESETS[CHOOSE i \in 1..Len(ROUND_PRESETS) : ROUND_PRESETS[i].key = name]
    ELSE NoPreset

\* get_round_preset(name): the first preset whose lower-cased key is the
\* lower-cased name, None otherwise
GetRoundPreset(name) ==
    LET hits == {i \in 1..Len(ROUND_PRESETS) :
                    StrLower(ROUND_PRESETS[i].key) = StrLower(name)}
    IN  IF hits = {} THEN NoPreset
        ELSE ROUND_PRESETS[CHOOSE i \in hits : \A j \in hits : i <= j]

\* get_max_score(round_type, arrow_count)
GetMaxScore(round_type, arrow_count) ==
    LET preset == GetRoundPreset(round_type)
    IN  IF preset # NoPreset /\ arrow_count = preset.arrow_count THEN preset.max_score
        ELSE IF preset # NoPreset /\ preset.scoring_type = "field" THEN arrow_count * 5
        ELSE IF preset # NoPreset /\ preset.scoring_type = "wa" THEN arrow_count * 10
        ELSE IF preset # NoPreset /\ preset.scoring_type = "flint" THEN arrow_count * 5
        ELSE arrow_count * 10

NoRoundCall == [fn |-> "none", round_type |-> <<>>, arrow_count |-> 0, result |-> 0]

(***************************************************************************)
(* Inputs of the scoring calls.                                            *)
(***************************************************************************)

\* how many half ring widths (WA) or tenths of the face (Flint) the radii span
MaxSteps == 24
\* how far, in milli, a radius is taken on either side of a boundary
MaxOffset == 1
\* the largest shot coordinate of the endpoint, in tenths of a centimetre
MaxCoord == 12

Faces == {0, 20, 35, 40, 122}
FaceTypes == {"WA", "Flint"}

\* raised tells whether the call ended in an exception: the scoring functions
\* have no raise statement and their arithmetic cannot fail on numbers, so
\* no call sets it
NoScoreCall ==
    [fn |-> "none", radius |-> 0, face |-> 0, x_is_11 |-> FALSE,
     x |-> 0, y |-> 0, face_type |-> "WA", score |-> 0, is_x |-> FALSE,
     raised |-> FALSE]

\* the radii at and next to every half ring width of a WA face
RingRadii(face) ==
    {j * ((face * Milli) \div 40) + d : j \in 0..MaxSteps, d \in (-MaxOffset)..MaxOffset}

\* the radii at and next to every tenth of a Flint face
FlintRadii(face) ==
    {j * ((face * Milli) \div 10) + d : j \in 0..(MaxSteps \div 4), d \in (-MaxOffset)..MaxOffset}

CallGetRingScore ==
    /\ scoreCall.fn = "none"
    /\ UNCHANGED otherThanScore
    /\ \E face \in Faces, x_is_11 \in BOOLEAN :
      \E radius \in RingRadii(face) :
        scoreCall' = [NoScoreCall EXCEPT !.fn = "get_ring_score", !.radius = radius,
                        !.face = face, !.x_is_11 = x_is_11,
                        !.score = GetRingScore(radius, face, x_is_11)]

CallGetFlintScore ==
    /\ scoreCall.fn = "none"
    /\ UNCHANGED otherThanScore
    /\ \E face \in Faces :
      \E radius \in FlintRadii(face) :
        scoreCall' = [NoScoreCall EXCEPT !.fn = "get_flint_score", !.radius = radius,
                        !.face = face, !.score = GetFlintScore(radius, face)]

CallCalculateRingScore ==
    /\ scoreCall.fn = "none"
    /\ UNCHANGED otherThanScore
    /\ \E x \in (-MaxCoord)..MaxCoord, y \in (-MaxCoord)..MaxCoord,
       face \in Faces, face_type \in FaceTypes, x_is_11 \in BOOLEAN :
        LET res == CalculateRingScore(x, y, face, face_type, x_is_11)
        IN  scoreCall' = [NoScoreCall EXCEPT !.fn = "calculate_ring_score",
                            !.radius = RadiusOf(x, y), !.x = x, !.y = y,
                            !.face = face, !.face_type = face_type,
                            !.x_is_11 = x_is_11,
                            !.score = res.score, !.is_x = res.is_x]

ScoreInit ==
    /\ scoreCall = NoScoreCall
    /\ grpCall = NoGrpCall
    /\ ewmaCall = NoEwmaCall
    /\ hitCall = NoHitCall
    /\ hitLog = <<>>
    /\ globalRandom = NoGlobalUse
    /\ roundCall = NoRoundCall
    /\ cmpCall = NoCmpCall
    /\ parkCall = NoParkCall
    /\ crawlCall = NoCrawlCall

\* the call returns: nothing of it is kept (the functions are stateless)
ReturnScore ==
    /\ scoreCall.fn # "none"
    /\ scoreCall' = NoScoreCall
    /\ UNCHANGED otherThanScore

ScoreNext ==
    CallGetRingScore \/ CallGetFlintScore \/ CallCalculateRingScore \/ ReturnScore

SpecScore == ScoreInit /\ [][ScoreNext]_vars

(***************************************************************************)
(* Claims about scoring.                                                   *)
(***************************************************************************)

\* the k with (k - 1) * w < radius <= k * w, for the ring width w = face / 20
RingIndexOf(radius, face) ==
    CHOOSE k \in 0..(MaxSteps + 2) :
        /\ (k - 1) * face * Milli < 20 * radius
        /\ 20 * radius <= k * face * Milli

\* the score the specification's rule gives
ReferenceRingScore(radius, face, x_is_11) ==
    LET k == RingIndexOf(radius, face)
    IN  IF k <= 1
        THEN (IF x_is_11 /\ 2 * 20 * radius <= face * Milli THEN 11 ELSE 10)
        ELSE IF k <= 10 THEN 11 - k ELSE 0

\* C1: for every radius >= 0 and face diameter > 0, get_ring_score returns the
\* score of the reference rule: with w = face/20 and k = ceil(radius/w), 10 when
\* k <= 1 (11 when x_is_11 and radius <= w/2), 11 - k when 2 <= k <= 10, else 0.
C1_RingScoreIsReference ==
    (scoreCall.fn = "get_ring_score" /\ scoreCall.radius >= 0 /\ scoreCall.face > 0)
    => scoreCall.score =
         ReferenceRingScore(scoreCall.radius, scoreCall.face, scoreCall.x_is_11)

\* a radius exactly on the outer edge of the 9 ring of a 40 cm face scored 9
C1_Witness ==
    /\ scoreCall.fn = "get_ring_score"
    /\ scoreCall.face = 40
    /\ scoreCall.radius = 4 * Milli
    /\ scoreCall.score = 9

\* the four shots of the example, in tenths of a centimetre
ExampleShots == << <<0, 0>>, <<5, 3>>, <<-3, -2>>, <<12, -8>> >>

IsExampleCall(i) ==
    /\ scoreCall.fn = "calculate_ring_score"
    /\ scoreCall.face = 40
    /\ scoreCall.face_type = "WA"
    /\ ~scoreCall.x_is_11
    /\ <<scoreCall.x, scoreCall.y>> = ExampleShots[i]

\* C2 as stated: on a 40 cm face the shots (0,0), (0.5,0.3), (-0.3,-0.2),
\* (1.2,-0.8) receive the ring scores 10, 10, 10, 9.
C2_ExampleScoresAsStated ==
    \A i \in 1..4 : IsExampleCall(i) => scoreCall.score = <<10, 10, 10, 9>>[i]

\* C2 amended: on a 40 cm face (ring width 2 cm) the four shots all lie within
\* the 10 ring (the farthest at 1.44 cm) and receive 10, 10, 10, 10.
C2_ExampleScores ==
    \A i \in 1..4 : IsExampleCall(i) => scoreCall.score = <<10, 10, 10, 10>>[i]

\* the fourth shot of the example has been scored, and scored 10
C2_Witness == IsExampleCall(4) /\ scoreCall.score = 10

\* C3: for every radius >= 0 and face diameter D, get_flint_score returns 5 if
\* radius <= 0.1*D, else 4 if radius <= 0.2*D, else 3 if radius <= 0.3*D, else 0;
\* a radius exactly on a threshold gets the higher score.
C3_FlintScoreThresholds ==
    (scoreCall.fn = "get_flint_score" /\ scoreCall.radius >= 0)
    => LET tenth == (scoreCall.face * Milli) \div 10
           r == scoreCall.radius
       IN  /\ (r <= tenth) => scoreCall.score = 5
           /\ (tenth < r /\ r <= 2 * tenth) => scoreCall.score = 4
           /\ (2 * tenth < r /\ r <= 3 * tenth) => scoreCall.score = 3
           /\ (3 * tenth < r) => scoreCall.score = 0

\* a radius exactly on the 4 ring's edge of a 35 cm face (7 cm) scored 4
C3_Witness ==
    /\ scoreCall.fn = "get_flint_score"
    /\ scoreCall.face = 35
    /\ scoreCall.radius = 7 * Milli
    /\ scoreCall.score = 4

(***************************************************************************)
(* Shot groups given to the statistics.                                    *)
(***************************************************************************)

\* the shots of a tight group: the corners of a 1 cm square
TightPts == << <<0, 0>>, <<1, 0>>, <<0, 1>>, <<1, 1>> >>
\* how many shots of a group may lie on one corner
MaxMult == 3
\* how many shots may lie on the first corner when the others hold none
MaxCluster == 18
\* the outliers injected into a group
Outliers == { <<10, 10>>, <<0, -10>> }

Rep(p, m) == [i \in 1..m |-> p]

\* the group with mult[i] shots on TightPts[i], followed by the outliers of o
GroupOf(mult, o) ==
    Rep(TightPts[1], mult[1]) \o Rep(TightPts[2], mult[2])
      \o Rep(TightPts[3], mult[3]) \o Rep(TightPts[4], mult[4]) \o o

Mults ==
    [1..4 -> 0..MaxMult] \cup {<<k, 0, 0, 0>> : k \in 0..MaxCluster}

Groups == {GroupOf(m, o) : m \in Mults, o \in {<<>>} \cup {<<p>> : p \in Outliers}}

\* analytics: compute_drms and compute_r95 of one group
CallDispersion ==
    /\ grpCall.fn = "none"
    /\ \E pts \in Groups :
         grpCall' = [NoGrpCall EXCEPT !.fn = "dispersion", !.pts = pts,
                       !.drms = ComputeDrms(pts), !.r95 = ComputeR95(pts)]
    /\ UNCHANGED otherThanGroup

\* analytics: compute_rayleigh_sigma_with_ci of one group at one confidence level
CallRayleigh ==
    /\ grpCall.fn = "none"
    /\ \E pts \in Groups, c \in DOMAIN Confidences :
         grpCall' = [NoGrpCall EXCEPT !.fn = "rayleigh", !.pts = pts,
                       !.rayleigh = ComputeRayleighSigmaWithCi(pts, c)]
    /\ UNCHANGED otherThanGroup

\* analytics: compute_confidence_ellipse of one group at one coverage level
CallEllipse ==
    /\ grpCall.fn = "none"
    /\ \E pts \in Groups, k \in DOMAIN Coverages :
         grpCall' = [NoGrpCall EXCEPT !.fn = "ellipse", !.pts = pts,
                       !.ellipse = ComputeConfidenceEllipse(pts, k)]
    /\ UNCHANGED otherThanGroup

\* how many shots the distances of a successful robust fit may flag
MaxRobustFliers == 1

\* the masks a successful robust fit may give for a group of n shots: a few
\* shots flagged, or all shots flagged but the first 0, 1 or 2
RobustMasks(n) ==
    {m \in SUBSET (1..n) : Cardinality(m) <= MaxRobustFliers}
      \cup {(j + 1)..n : j \in 0..2}

\* analytics: detect_fliers of one group, with each outcome of the robust step
CallDetectFliers ==
    /\ grpCall.fn = "none"
    /\ \E pts \in Groups, robust \in RobustOutcomes :
         \E mask \in (IF robust = "fit" /\ Len(pts) >= 5
                       THEN RobustMasks(Len(pts)) ELSE {{}}) :
            grpCall' = [NoGrpCall EXCEPT !.fn = "fliers", !.pts = pts,
                          !.robust = robust,
                          !.fliers = DetectFliers(pts, robust, mask)]
    /\ UNCHANGED otherThanGroup

\* analytics: compute_accuracy_precision_ratio of one group
CallAccuracyPrecisionRatio ==
    /\ grpCall.fn = "none"
    /\ \E pts \in Groups :
         grpCall' = [NoGrpCall EXCEPT !.fn = "accuracy", !.pts = pts,
                       !.accuracy = ComputeAccuracyPrecisionRatio(pts)]
    /\ UNCHANGED otherThanGroup

ReturnGroup ==
    /\ grpCall.fn # "none"
    /\ grpCall' = NoGrpCall
    /\ UNCHANGED otherThanGroup

GroupInit ==
    /\ scoreCall = NoScoreCall
    /\ grpCall = NoGrpCall
    /\ ewmaCall = NoEwmaCall
    /\ hitCall = NoHitCall
    /\ hitLog = <<>>
    /\ globalRandom = NoGlobalUse
    /\ roundCall = NoRoundCall
    /\ cmpCall = NoCmpCall
    /\ parkCall = NoParkCall
    /\ crawlCall = NoCrawlCall

GroupNext ==
    CallDispersion \/ CallRayleigh \/ CallEllipse \/ CallDetectFliers
        \/ CallAccuracyPrecisionRatio \/ ReturnGroup

SpecGroup == GroupInit /\ [][GroupNext]_vars

(***************************************************************************)
(* Claims about the group statistics.                                      *)
(***************************************************************************)

\* C4 as stated: for every shot group, compute_r95 >= compute_drms.
C4_R95GeqDrmsAsStated ==
    (grpCall.fn = "dispersion" /\ Len(grpCall.pts) >= 1)
    => R95GeqDrms(grpCall.r95, grpCall.drms)

\* C4 amended: for every shot group of 1 to 17 shots, compute_r95 >= compute_drms
\* (in exact arithmetic); from 18 shots on one far shot among identical ones
\* raises the DRMS above the 95th percentile of the radii.
C4_R95GeqDrmsSmallGroups ==
    (grpCall.fn = "dispersion" /\ Len(grpCall.pts) >= 1 /\ Len(grpCall.pts) <= 17)
    => R95GeqDrms(grpCall.r95, grpCall.drms)

\* a group of 17 shots, 16 of them identical, where r95 = drms exactly
C4_Witness ==
    /\ grpCall.fn = "dispersion"
    /\ Len(grpCall.pts) = 17
    /\ grpCall.r95.lo # grpCall.r95.hi
    /\ R95GeqDrms(grpCall.r95, grpCall.drms)

\* C5 as stated, for the groups that have a shot: at every confidence level
\* compute_rayleigh_sigma_with_ci returns ci_lower <= sigma <= ci_upper.
C5_CiBracketsSigmaAsStated ==
    (grpCall.fn = "rayleigh" /\ Len(grpCall.pts) >= 1)
    => /\ grpCall.rayleigh.ci_lower <= grpCall.rayleigh.sigma
       /\ grpCall.rayleigh.sigma <= grpCall.rayleigh.ci_upper

\* C5 amended: for every group of at least one shot and every confidence level
\* from 0.19 up (below 1), ci_lower <= sigma <= ci_upper.
C5_CiBracketsSigma ==
    (grpCall.fn = "rayleigh" /\ Len(grpCall.pts) >= 1
       /\ grpCall.rayleigh.confidence >= 19)
    => /\ ~grpCall.rayleigh.nan
       /\ grpCall.rayleigh.ci_lower <= grpCall.rayleigh.sigma
       /\ grpCall.rayleigh.sigma <= grpCall.rayleigh.ci_upper

\* a two-shot group at confidence 0.19, where the interval is at its tightest
\* about sigma
C5_Witness ==
    /\ grpCall.fn = "rayleigh"
    /\ Len(grpCall.pts) = 2
    /\ grpCall.rayleigh.confidence = 19
    /\ grpCall.rayleigh.sigma > 0
    /\ grpCall.rayleigh.ci_lower <= grpCall.rayleigh.sigma
    /\ grpCall.rayleigh.sigma < grpCall.rayleigh.ci_upper

\* C6: compute_confidence_ellipse returns semi_major >= semi_minor >= 0 for every
\* shot group, and for a group of fewer than 3 shots a zero-size ellipse
\* (semi_major = semi_minor = 0) centred at the group mean (NaN, the mean numpy
\* gives for no values, when the group is empty).
C6_EllipseAxesOrdered ==
    (grpCall.fn = "ellipse")
    => LET e == grpCall.ellipse
           n == Len(grpCall.pts)
       IN  /\ e.semi_major >= e.semi_minor
           /\ e.semi_minor >= 0
           /\ (n < 3) => (e.semi_major = 0 /\ e.semi_minor = 0)
           /\ e.nan <=> (n = 0)
           /\ (n = 1 \/ n = 2) =>
                 /\ ~e.nan
                 /\ e.center_x * n = SumSeq(Xs(grpCall.pts)) * Milli
                 /\ e.center_y * n = SumSeq(Ys(grpCall.pts)) * Milli

\* an ellipse of a group of 3 or more shots with two different axes
C6_Witness ==
    /\ grpCall.fn = "ellipse"
    /\ Len(grpCall.pts) >= 3
    /\ grpCall.ellipse.semi_major > grpCall.ellipse.semi_minor
    /\ grpCall.ellipse.semi_minor > 0

\* a tight group (shots on the corners of the 1 cm square) with one outlier
\* injected, n shots in total
TightWithOutlier(pts) ==
    /\ Len(pts) >= 2
    /\ pts[Len(pts)] \in Outliers
    /\ \A i \in 1..(Len(pts) - 1) : pts[i] \notin Outliers

\* C10: injecting one extreme outlier into a tight shot group (n >= 5 shots in
\* total) makes detect_fliers report flier_count >= 1 and clean_sigma strictly
\* smaller than full_sigma.  Stated for the calls where sklearn cannot be
\* imported, so that the distances are those of the sample covariance.
C10_OutlierIsFlagged ==
    (/\ grpCall.fn = "fliers"
     /\ grpCall.robust = "ImportError"
     /\ Len(grpCall.pts) >= 5
     /\ TightWithOutlier(grpCall.pts))
    => /\ grpCall.fliers.flier_count >= 1
       /\ grpCall.fliers.clean_sigma < grpCall.fliers.full_sigma

\* under the sample covariance no shot of a group of 5 to 9 shots is ever
\* flagged: the squared distance is at most (n - 1)^2 / n < 7.377759
FallbackFlagsNothingBelowTen ==
    (/\ grpCall.fn = "fliers"
     /\ grpCall.robust # "fit"
     /\ Len(grpCall.pts) <= 9)
    => grpCall.fliers.flier_count = 0

\* under the sample covariance, a flagged outlier always lowers clean_sigma
FallbackFlaggedLowersSigma ==
    (/\ grpCall.fn = "fliers"
     /\ grpCall.robust # "fit"
     /\ TightWithOutlier(grpCall.pts)
     /\ grpCall.fliers.flier_count >= 1)
    => /\ grpCall.fliers.flier_indices = {Len(grpCall.pts)}
       /\ grpCall.fliers.clean_sigma < grpCall.fliers.full_sigma

\* a group of 10 or more shots whose outlier the sample covariance flags
FallbackFlagsLargeGroup ==
    /\ grpCall.fn = "fliers"
    /\ grpCall.robust = "ImportError"
    /\ grpCall.fliers.flier_count = 1

(***************************************************************************)
(* The calls of compute_ewma.                                              *)
(***************************************************************************)

\* the longest series
MaxSeries == 4

\* the values of a series, in ten-thousandths
SeriesValues == {0, 1, 2, 30}

\* lam, in tenths: 0.1, 0.2 (scores), 0.3 (sigmas), 1
Lams == {1, 2, 3, 10}

Series == UNION {[1..n -> SeriesValues] : n \in 0..MaxSeries}

\* trends: compute_ewma of one series
CallComputeEwma ==
    /\ ewmaCall.fn = "none"
    /\ \E values \in Series, l \in Lams :
         ewmaCall' = [NoEwmaCall EXCEPT !.fn = "ewma", !.values = values, !.lam = l,
                        !.result = ComputeEwma(values, l)]
    /\ UNCHANGED otherThanEwma

\* ends of at most three shots, in shooting order
MaxEnds == 3
TrendScores == {8, 10}
Ends == UNION {[1..k -> TrendScores] : k \in 0..3}
EndLists == UNION {[1..n -> Ends] : n \in 0..MaxEnds}

\* the within-end analysis of the recorded ends
CallComputeWithinEndTrend ==
    /\ ewmaCall.fn = "none"
    /\ \E ends \in EndLists :
         ewmaCall' = [NoEwmaCall EXCEPT !.fn = "within_end_trend", !.ends = ends,
                        !.trend = ComputeWithinEndTrend(ShotsByPosition(ends))]
    /\ UNCHANGED otherThanEwma

ReturnEwma ==
    /\ ewmaCall.fn # "none"
    /\ ewmaCall' = NoEwmaCall
    /\ UNCHANGED otherThanEwma

EwmaInit ==
    /\ scoreCall = NoScoreCall
    /\ grpCall = NoGrpCall
    /\ ewmaCall = NoEwmaCall
    /\ hitCall = NoHitCall
    /\ hitLog = <<>>
    /\ globalRandom = NoGlobalUse
    /\ roundCall = NoRoundCall
    /\ cmpCall = NoCmpCall
    /\ parkCall = NoParkCall
    /\ crawlCall = NoCrawlCall

EwmaNext == CallComputeEwma \/ CallComputeWithinEndTrend \/ ReturnEwma

SpecEwma == EwmaInit /\ [][EwmaNext]_vars

\* C9 as stated: for any series of length >= 2, UCL_t > LCL_t at every index t.
C9_UclAboveLclAsStated ==
    (ewmaCall.fn = "ewma" /\ Len(ewmaCall.values) >= 2)
    => \A t \in 1..Len(ewmaCall.values) :
          ewmaCall.result.ucl[t] > ewmaCall.result.lcl[t]

\* C9 amended: for any series of length >= 2, UCL_t >= LCL_t at every index t;
\* UCL_t > LCL_t whenever 2 * L * lam * sigma >= 0.0001 (the limits then differ
\* after rounding to 4 decimals); and for a series of equal values
\* UCL_t = LCL_t = mean.
C9_UclNotBelowLcl ==
    (ewmaCall.fn = "ewma" /\ Len(ewmaCall.values) >= 2)
    => \A t \in 1..Len(ewmaCall.values) :
          /\ ewmaCall.result.ucl[t] >= ewmaCall.result.lcl[t]
          /\ (2 * L * ewmaCall.lam * EwmaSigma(ewmaCall.values) >= 100 * Milli)
                => ewmaCall.result.ucl[t] > ewmaCall.result.lcl[t]
          /\ (\A i \in 1..Len(ewmaCall.values) : ewmaCall.values[i] = ewmaCall.values[1])
                => /\ ewmaCall.result.ucl[t] = ewmaCall.result.mean
                   /\ ewmaCall.result.lcl[t] = ewmaCall.result.mean

\* a series of different values whose limits differ at every index
C9_Witness ==
    /\ ewmaCall.fn = "ewma"
    /\ Len(ewmaCall.values) >= 3
    /\ 2 * L * ewmaCall.lam * EwmaSigma(ewmaCall.values) >= 100 * Milli
    /\ \A t \in 1..Len(ewmaCall.values) :
          ewmaCall.result.ucl[t] > ewmaCall.result.lcl[t]
    /\ ewmaCall.result.ucl[2] > ewmaCall.result.ucl[1]

(***************************************************************************)
(* The calls of compute_hit_probability, among other uses of random        *)
(* numbers in the process.                                                 *)
(***************************************************************************)

\* n_samples of the model (50000 in the code)
NSamples == 7

\* how many calls the log keeps
MaxCalls == 2

\* how many times the process-global random state is used
MaxGlobalUses == 2

\* the arguments: sigma and mpi in hundredths of a centimetre
HitArgs ==
    [sigma_x : {0, 300}, sigma_y : {100, 300}, mpi_x : {0, 20 * Centi},
     mpi_y : {0}, face : {40, 122}]

\* compute_hit_probability up to the creation of its generator
BeginHitProbability ==
    /\ hitCall.fn = "none"
    /\ Len(hitLog) < MaxCalls
    /\ \E a \in HitArgs :
         hitCall' = [fn |-> "sampling", args |-> a, rng |-> NewGenerator(globalRandom.state)]
    /\ UNCHANGED <<scoreCall, grpCall, ewmaCall, hitLog, globalRandom, cmpCall, parkCall, crawlCall, roundCall>>

\* the rest of compute_hit_probability: sampling, binning, the result.  The log
\* keeps the arguments and the result of each call, and how often the global
\* generator had been used by then.
FinishHitProbability ==
    /\ hitCall.fn = "sampling"
    /\ hitLog' = Append(hitLog, [args |-> hitCall.args,
                                 result |-> HitProbabilityOf(hitCall.args, hitCall.rng, NSamples),
                                 global_uses |-> globalRandom.uses])
    /\ hitCall' = NoHitCall
    /\ UNCHANGED <<scoreCall, grpCall, ewmaCall, globalRandom, cmpCall, parkCall, crawlCall, roundCall>>

\* another part of the process draws from the process-global generator
UseGlobalRandom ==
    /\ globalRandom.uses < MaxGlobalUses
    /\ globalRandom' = [state |-> NextState(globalRandom.state),
                        uses |-> globalRandom.uses + 1]
    /\ UNCHANGED <<scoreCall, grpCall, ewmaCall, hitCall, hitLog, cmpCall, parkCall, crawlCall, roundCall>>

HitInit ==
    /\ scoreCall = NoScoreCall
    /\ grpCall = NoGrpCall
    /\ ewmaCall = NoEwmaCall
    /\ hitCall = NoHitCall
    /\ hitLog = <<>>
    /\ globalRandom = NoGlobalUse
    /\ roundCall = NoRoundCall
    /\ cmpCall = NoCmpCall
    /\ parkCall = NoParkCall
    /\ crawlCall = NoCrawlCall

HitNext == BeginHitProbability \/ FinishHitProbability \/ UseGlobalRandom

SpecHit == HitInit /\ [][HitNext]_vars

\* C7: for every valid input, compute_hit_probability returns 11 entries for
\* rings 10 down to 1 followed by 0 (miss) whose probabilities sum to
\* 100 +/- 1: every simulated radius is counted in exactly one bin.
C7_ProbabilitiesSumTo100 ==
    \A c \in 1..Len(hitLog) :
        LET rp == hitLog[c].result.ring_probs
        IN  /\ Len(rp) = 11
            /\ \A k \in 1..10 : rp[k].ring = 11 - k
            /\ rp[11].ring = 0
            /\ SumSeq([k \in 1..11 |-> rp[k].count]) = NSamples
            /\ Abs(SumSeq([k \in 1..11 |-> rp[k].probability]) - 100 * Centi) <= Centi

\* a call whose samples fall in several rings and in the miss bin
C7_Witness ==
    \E c \in 1..Len(hitLog) :
        LET rp == hitLog[c].result.ring_probs
        IN  /\ rp[11].count > 0
            /\ Cardinality({k \in 1..10 : rp[k].count > 0}) >= 2

\* C8: two calls of compute_hit_probability with identical arguments return
\* identical ring probabilities and expected score, whatever other uses of
\* random numbers happen in between or during the calls; the calls leave the
\* process-global random state alone.
C8_SameArgumentsSameResult ==
    /\ [](\A c, d \in 1..Len(hitLog) :
            hitLog[c].args = hitLog[d].args => hitLog[c].result = hitLog[d].result)
    /\ [][(hitCall' # hitCall) => (globalRandom' = globalRandom)]_vars

\* two calls with the same arguments, the global generator used between them
C8_Witness ==
    /\ Len(hitLog) = 2
    /\ hitLog[1].args = hitLog[2].args
    /\ hitLog[1].result = hitLog[2].result
    /\ hitLog[1].global_uses < hitLog[2].global_uses

(***************************************************************************)
(* The calls of compute_equipment_comparison.                              *)
(***************************************************************************)

\* the longest score series of a setup
MaxSessions == 3

\* session average scores of setup B and of setup A, in tenths
ScoresB == {68, 70, 72}
ScoresA == {83, 85, 87}

\* the sigma series of a setup, in tenths of a centimetre
SigmaSeries == {<<>>, <<20>>, <<20, 22>>, <<30, 32>>}

SeriesOver(values) == UNION {[1..n -> values] : n \in 0..MaxSessions}

\* trends: compute_equipment_comparison of two setups; setup A has scores of
\* its own or the very scores of setup B
CallComputeEquipmentComparison ==
    /\ cmpCall.fn = "none"
    /\ \E b_scores \in SeriesOver(ScoresB), a_sig \in SigmaSeries, b_sig \in SigmaSeries :
       \E a_scores \in SeriesOver(ScoresA) \cup {b_scores} :
       \E p_score \in (IF Len(a_scores) >= 2 /\ Len(b_scores) >= 2
                       THEN TtestInd(a_scores, b_scores) ELSE {"one"}),
          p_sigma \in SigmaPValues(a_sig, b_sig) :
         cmpCall' = [fn |-> "compare", a_scores |-> a_scores, a_sigmas |-> a_sig,
                     b_scores |-> b_scores, b_sigmas |-> b_sig,
                     result |-> ComputeEquipmentComparison(a_scores, a_sig, b_scores,
                                                           b_sig, p_score, p_sigma)]
    /\ UNCHANGED otherThanCmp

ReturnCmp ==
    /\ cmpCall.fn # "none"
    /\ cmpCall' = NoCmpCall
    /\ UNCHANGED otherThanCmp

CmpInit ==
    /\ scoreCall = NoScoreCall
    /\ grpCall = NoGrpCall
    /\ ewmaCall = NoEwmaCall
    /\ hitCall = NoHitCall
    /\ hitLog = <<>>
    /\ globalRandom = NoGlobalUse
    /\ roundCall = NoRoundCall
    /\ cmpCall = NoCmpCall
    /\ parkCall = NoParkCall
    /\ crawlCall = NoCrawlCall

CmpNext == CallComputeEquipmentComparison \/ ReturnCmp

SpecCmp == CmpInit /\ [][CmpNext]_vars

\* the mean of a exceeds the mean of b by exactly 1.5
GapOfOneAndAHalf(a, b) == MeanDiffNum(a, b) * 10 = 15 * 10 * Len(a) * Len(b)

\* every value of the series within 0.2 of the mean of the series
SmallSpread(a) ==
    \A i \in 1..Len(a) : Abs(Len(a) * a[i] - SumSeq(a)) <= 2 * Len(a)

\* C11 as stated: two score series (2 or more values each) with a 1.5-point
\* mean gap, A above B, and small within-series spread give score_significant
\* = true and score_diff > 0; two identical series give score_significant = false.
\* Stated for the calls whose p-value the table of critical values decides.
C11_GapIsSignificantAsStated ==
    (/\ cmpCall.fn = "compare"
     /\ Len(cmpCall.a_scores) >= 2
     /\ Len(cmpCall.b_scores) >= 2
     /\ Cardinality(TtestInd(cmpCall.a_scores, cmpCall.b_scores)) = 1)
    => /\ (/\ GapOfOneAndAHalf(cmpCall.a_scores, cmpCall.b_scores)
           /\ SmallSpread(cmpCall.a_scores)
           /\ SmallSpread(cmpCall.b_scores))
          => /\ cmpCall.result.score_significant
             /\ cmpCall.result.score_diff.v > 0
       /\ (cmpCall.a_scores = cmpCall.b_scores) => ~cmpCall.result.score_significant

\* C11 amended: the same for series of 3 or more values each: with only 2
\* values in a series the t-test can have a single degree of freedom, where a
\* spread of 0.2 leaves p above 0.05.
C11_GapIsSignificant ==
    (cmpCall.fn = "compare" /\ Len(cmpCall.a_scores) >= 2 /\ Len(cmpCall.b_scores) >= 2)
    => /\ (/\ Len(cmpCall.a_scores) >= 3
           /\ Len(cmpCall.b_scores) >= 3
           /\ GapOfOneAndAHalf(cmpCall.a_scores, cmpCall.b_scores)
           /\ SmallSpread(cmpCall.a_scores)
           /\ SmallSpread(cmpCall.b_scores))
          => /\ cmpCall.result.score_significant
             /\ cmpCall.result.score_diff.v = 1500
       /\ (cmpCall.a_scores = cmpCall.b_scores) => ~cmpCall.result.score_significant

\* two series of three different values each, 1.5 apart, found significant
C11_Witness ==
    /\ cmpCall.fn = "compare"
    /\ cmpCall.a_scores = <<83, 85, 87>>
    /\ cmpCall.b_scores = <<68, 70, 72>>
    /\ cmpCall.result.score_significant
    /\ cmpCall.result.score_p_value = "below"

\* C12: whenever a series (the score series or the sigma series, of setup A or
\* of setup B) has fewer than 2 observations, the result for that series is the
\* insufficient-data result: p-value 1.0, difference 0 and significant = false.
C12_InsufficientSeriesResult ==
    (cmpCall.fn = "compare")
    => /\ (Len(cmpCall.a_scores) < 2 \/ Len(cmpCall.b_scores) < 2)
          => /\ cmpCall.result.score_p_value = "one"
             /\ cmpCall.result.score_diff = [nan |-> FALSE, v |-> 0]
             /\ ~cmpCall.result.score_significant
       /\ (Len(cmpCall.a_sigmas) < 2 \/ Len(cmpCall.b_sigmas) < 2)
          => /\ cmpCall.result.sigma_p_value = "one"
             /\ cmpCall.result.sigma_diff = [nan |-> FALSE, v |-> 0]
             /\ ~cmpCall.result.sigma_significant

\* what does hold for a short series: the p-value is 1.0 and nothing is
\* significant, and a short score series gives the whole early return
ShortSeriesNotSignificant ==
    (cmpCall.fn = "compare")
    => /\ (Len(cmpCall.a_scores) < 2 \/ Len(cmpCall.b_scores) < 2)
          => cmpCall.result = InsufficientData
       /\ (Len(cmpCall.a_sigmas) < 2 \/ Len(cmpCall.b_sigmas) < 2)
          => /\ cmpCall.result.sigma_p_value = "one"
             /\ ~cmpCall.result.sigma_significant

\* a short sigma series beside two full score series: the difference of the
\* sigma means is returned, not 0
ShortSigmaSeriesKeepsDiff ==
    /\ cmpCall.fn = "compare"
    /\ cmpCall.a_sigmas = <<20>>
    /\ cmpCall.b_sigmas = <<30, 32>>
    /\ cmpCall.result.sigma_diff = [nan |-> FALSE, v |-> -1100]
    /\ cmpCall.result.sigma_p_value = "one"

(***************************************************************************)
(* The calls of the park model.                                            *)
(***************************************************************************)

\* the sigmas of the calls are the multiples of SigmaStep sigma units
\* (0.19 cm) up to MaxSigmaSteps of them, below 50 cm
SigmaStep == 1000
MaxSigmaSteps == 262

ParkFaces == {40, 122}

\* sigma < 50 cm
BelowFifty(sigma) == sigma * SearchHigh < 50 * SigmaUnits

ParkSigmas == {m * SigmaStep : m \in 1..MaxSigmaSteps}

\* the scores of the direct calls, in millionths
ParkScores ==
    {-Mega, 0, 1, 200000, 500000, 5 * Mega, 9 * Mega, 9990000, 10 * Mega - 1,
     10 * Mega, 11 * Mega}

CallCalculateExpectedScore ==
    /\ parkCall.fn = "none"
    /\ \E sigma \in {-SigmaStep, 0} \cup ParkSigmas, face \in ParkFaces \cup {0} :
         parkCall' = [NoParkCall EXCEPT !.fn = "calculate_expected_score",
                      !.sigma = sigma, !.face = face,
                      !.result = CalculateExpectedScore(sigma, face)]
    /\ UNCHANGED otherThanPark

CallCalculateSigmaFromScore ==
    /\ parkCall.fn = "none"
    /\ \E score \in ParkScores, face \in ParkFaces \cup {0} :
         parkCall' = [NoParkCall EXCEPT !.fn = "calculate_sigma_from_score",
                      !.face = face, !.score = score,
                      !.result = CalculateSigmaFromScore(score, face)]
    /\ UNCHANGED otherThanPark

\* the round trip of test_sigma_score_round_trip
CallRoundTrip ==
    /\ parkCall.fn = "none"
    /\ \E sigma \in ParkSigmas, face \in ParkFaces :
       \E exactly_ten \in ExactlyTen(sigma, face) :
         parkCall' = [NoParkCall EXCEPT !.fn = "round_trip",
                      !.sigma = sigma, !.face = face,
                      !.score = CalculateExpectedScore(sigma, face),
                      !.result = RoundTrip(sigma, face, exactly_ten)]
    /\ UNCHANGED otherThanPark

\* the binary search of calculate_sigma_from_score, iteration by iteration:
\* low = 0.0, high = 200.0 after the two early returns
BeginBinarySearch ==
    /\ parkCall.fn = "none"
    /\ \E score \in ParkScores, face \in ParkFaces \cup {0} :
         /\ score > 0
         /\ score < 10 * Mega
         /\ parkCall' = [NoParkCall EXCEPT !.fn = "binary_search",
                          !.face = face, !.score = score,
                          !.low = 0, !.high = SigmaUnits]
    /\ UNCHANGED otherThanPark

\* for _ in range(50): one iteration, which returns mid or narrows the bounds
StepBinarySearch ==
    /\ parkCall.fn = "binary_search"
    /\ parkCall.iter < Iterations
    /\ LET it == SearchIteration(parkCall.score, parkCall.face,
                                 parkCall.low, parkCall.high)
       IN  parkCall' =
             IF it.found
             THEN [parkCall EXCEPT !.fn = "binary_search_done", !.mid = it.mid,
                                   !.iter = @ + 1, !.result = it.mid]
             ELSE [parkCall EXCEPT !.mid = it.mid, !.iter = @ + 1,
                                   !.low = it.low, !.high = it.high]
    /\ UNCHANGED otherThanPark

\* return (low + high) / 2 after the last iteration
FinishBinarySearch ==
    /\ parkCall.fn = "binary_search"
    /\ parkCall.iter = Iterations
    /\ parkCall' = [parkCall EXCEPT !.fn = "binary_search_done",
                     !.result = (parkCall.low + parkCall.high) \div 2]
    /\ UNCHANGED otherThanPark

ReturnPark ==
    /\ parkCall.fn \notin {"none", "binary_search"}
    /\ parkCall' = NoParkCall
    /\ UNCHANGED otherThanPark

ParkInit ==
    /\ scoreCall = NoScoreCall
    /\ grpCall = NoGrpCall
    /\ ewmaCall = NoEwmaCall
    /\ hitCall = NoHitCall
    /\ hitLog = <<>>
    /\ globalRandom = NoGlobalUse
    /\ roundCall = NoRoundCall
    /\ cmpCall = NoCmpCall
    /\ parkCall = NoParkCall
    /\ crawlCall = NoCrawlCall

ParkNext ==
    \/ CallCalculateExpectedScore \/ CallCalculateSigmaFromScore \/ CallRoundTrip
    \/ BeginBinarySearch \/ StepBinarySearch \/ FinishBinarySearch \/ ReturnPark

SpecPark == ParkInit /\ [][ParkNext]_vars

\* C13: for any face diameter, calculate_expected_score(sigma, face) = 10 for
\* every sigma <= 0; calculate_sigma_from_score(score, face) = 0 for every
\* score >= 10 and = 1000 (the sentinel) for every score <= 0.
C13_EdgeCases ==
    /\ (parkCall.fn = "calculate_expected_score" /\ parkCall.sigma <= 0)
          => parkCall.result = 10 * Mega
    /\ (parkCall.fn = "calculate_sigma_from_score" /\ parkCall.score >= 10 * Mega)
          => parkCall.result = 0
    /\ (parkCall.fn = "calculate_sigma_from_score" /\ parkCall.score <= 0)
          => parkCall.result * SearchHigh = 1000 * SigmaUnits

\* calculate_sigma_from_score called with a score of more than 10
C13_Witness ==
    /\ parkCall.fn = "calculate_sigma_from_score"
    /\ parkCall.score > 10 * Mega
    /\ parkCall.face = 122
    /\ parkCall.result = 0

\* |a - b| < 0.01 cm for two sigmas in sigma units
WithinHundredth(a, b) == Abs(a - b) * SearchHigh * 100 < SigmaUnits

\* C14: for every face diameter D and every sigma with 0 < sigma < 50,
\* calculate_sigma_from_score(calculate_expected_score(sigma, D), D) differs
\* from sigma by less than 0.01.
C14_RoundTripStable ==
    (parkCall.fn = "round_trip" /\ parkCall.sigma > 0 /\ BelowFifty(parkCall.sigma))
    => WithinHundredth(parkCall.result, parkCall.sigma)

\* a round trip that does come back within 0.01: sigma = 4.96 cm on a 122 cm face
RoundTripNearFive ==
    /\ parkCall.fn = "round_trip"
    /\ parkCall.face = 122
    /\ parkCall.sigma = 26 * SigmaStep
    /\ WithinHundredth(parkCall.result, parkCall.sigma)

(***************************************************************************)
(* Crawl regression calls.  Calibration distances are distinct and listed  *)
(* in increasing order: 10 m, 20 m, 30 m and 50 m marks with crawls        *)
(* between -5 mm and 30 mm.                                                *)
(***************************************************************************)
MaxPoints == 3

CrawlDistances == {1, 2, 3, 5}

CrawlValues == {-5, 0, 10, 20, 25, 30}

DistanceLists ==
    {xs \in UNION {[1..n -> CrawlDistances] : n \in 0..MaxPoints} :
        \A i \in 1..(Len(xs) - 1) : xs[i] < xs[i + 1]}

\* prediction targets, in halves of a distance unit: 10 m to 50 m by 5 m
TargetsHalf == 2..10

CallCalculateCrawlRegression ==
    /\ crawlCall.fn = "none"
    /\ \E xs \in DistanceLists : \E ys \in [1..Len(xs) -> CrawlValues] :
          crawlCall' = [NoCrawlCall EXCEPT
              !.fn = "calculate_crawl_regression",
              !.known_distances = xs, !.known_crawls = ys,
              !.model = CalculateCrawlRegression(xs, ys)]
    /\ UNCHANGED otherThanCrawl

CallPredictCrawl ==
    /\ crawlCall.fn = "none"
    /\ \E xs \in DistanceLists : \E ys \in [1..Len(xs) -> CrawlValues] :
       \E target \in TargetsHalf :
          LET model == CalculateCrawlRegression(xs, ys)
          IN  /\ ~model.raised
              /\ crawlCall' = [NoCrawlCall EXCEPT
                    !.fn = "predict_crawl",
                    !.known_distances = xs, !.known_crawls = ys,
                    !.model = model, !.target = target,
                    !.prediction = PredictCrawl(model, target, 2)]
    /\ UNCHANGED otherThanCrawl

CallFindPointOnDistance ==
    /\ crawlCall.fn = "none"
    /\ \E xs \in DistanceLists : \E ys \in [1..Len(xs) -> CrawlValues] :
          LET model == CalculateCrawlRegression(xs, ys)
          IN  /\ ~model.raised
              /\ \E complex_pair \in
                      (IF DoubleRoot(model.coefficients) THEN BOOLEAN ELSE {FALSE}) :
                    crawlCall' = [NoCrawlCall EXCEPT
                        !.fn = "find_point_on_distance",
                        !.known_distances = xs, !.known_crawls = ys,
                        !.model = model, !.complex_pair = complex_pair,
                        !.point_on = FindPointOnDistance(model, complex_pair)]
    /\ UNCHANGED otherThanCrawl

\* the lists a request may carry: the crawls need not be as many as the distances
CrawlLists == UNION {[1..m -> CrawlValues] : m \in 0..MaxPoints}

\* POST /api/crawls/calculate, with a chart over 10 m, 20 m, 30 m; an
\* exception of the regression is answered 500
PostCalculate ==
    /\ crawlCall.fn = "none"
    /\ \E xs \in DistanceLists, ys \in CrawlLists :
          LET request == [NoCrawlCall EXCEPT !.fn = "POST /calculate",
                             !.known_distances = xs, !.known_crawls = ys]
          IN  IF ValidateCrawlLists(xs, ys) # 200
              THEN crawlCall' = [request EXCEPT !.status = ValidateCrawlLists(xs, ys)]
              ELSE LET model == CalculateCrawlRegression(xs, ys)
                   IN  IF model.raised
                       THEN crawlCall' = [request EXCEPT !.status = 500, !.model = model]
                       ELSE \E complex_pair \in
                               (IF DoubleRoot(model.coefficients) THEN BOOLEAN ELSE {FALSE}) :
                              crawlCall' = [request EXCEPT
                                  !.status = 200, !.model = model,
                                  !.chart = GenerateCrawlChart(model, 1, 3, 1),
                                  !.complex_pair = complex_pair,
                                  !.point_on = FindPointOnDistance(model, complex_pair),
                                  !.computed = {"regression", "chart", "point_on"}]
    /\ UNCHANGED otherThanCrawl

\* POST /api/crawls/predict for 15 m or 25 m; crawl_mm is round(crawl_mm, 1),
\* kept here as the fraction and rounded where it is read
PostPredict ==
    /\ crawlCall.fn = "none"
    /\ \E xs \in DistanceLists, ys \in CrawlLists, target \in {3, 5} :
          LET request == [NoCrawlCall EXCEPT !.fn = "POST /predict",
                             !.known_distances = xs, !.known_crawls = ys,
                             !.target = target]
          IN  IF ValidateCrawlLists(xs, ys) # 200
              THEN crawlCall' = [request EXCEPT !.status = ValidateCrawlLists(xs, ys)]
              ELSE LET model == CalculateCrawlRegression(xs, ys)
                   IN  IF model.raised
                       THEN crawlCall' = [request EXCEPT !.status = 500, !.model = model]
                       ELSE crawlCall' = [request EXCEPT
                               !.status = 200, !.model = model,
                               !.prediction = PredictCrawl(model, target, 2),
                               !.computed = {"regression", "prediction"}]
    /\ UNCHANGED otherThanCrawl

ReturnCrawl ==
    /\ crawlCall.fn # "none"
    /\ crawlCall' = NoCrawlCall
    /\ UNCHANGED otherThanCrawl

CrawlInit ==
    /\ scoreCall = NoScoreCall
    /\ grpCall = NoGrpCall
    /\ ewmaCall = NoEwmaCall
    /\ hitCall = NoHitCall
    /\ hitLog = <<>>
    /\ globalRandom = NoGlobalUse
    /\ roundCall = NoRoundCall
    /\ cmpCall = NoCmpCall
    /\ parkCall = NoParkCall
    /\ crawlCall = NoCrawlCall

CrawlNext ==
    CallCalculateCrawlRegression \/ CallPredictCrawl \/ CallFindPointOnDistance
        \/ PostCalculate \/ PostPredict \/ ReturnCrawl

SpecCrawl == CrawlInit /\ [][CrawlNext]_vars

\* C15: with exactly two calibration points (d1, c1), (d2, c2) the model is
\* the line through them: the prediction at the midpoint (d1 + d2) / 2 is
\* the mean (c1 + c2) / 2
C15_TwoPointsLinear ==
    (/\ crawlCall.fn = "predict_crawl"
     /\ Len(crawlCall.known_distances) = 2
     /\ crawlCall.target = crawlCall.known_distances[1] + crawlCall.known_distances[2])
    => /\ crawlCall.prediction.den > 0
       /\ 2 * crawlCall.prediction.num
            = (crawlCall.known_crawls[1] + crawlCall.known_crawls[2])
              * crawlCall.prediction.den

\* the case of test_linear_interpolation: 10 m -> 20 mm, 50 m -> 0 mm, asked
\* at 30 m, predicted 10 mm
C15_Witness ==
    /\ crawlCall.fn = "predict_crawl"
    /\ crawlCall.known_distances = <<1, 5>>
    /\ crawlCall.known_crawls = <<20, 0>>
    /\ crawlCall.target = 6
    /\ crawlCall.prediction.num = 10 * crawlCall.prediction.den

\* C16: for n >= 2 calibration points the fit asks for degree min(2, n - 1),
\* and the fitted polynomial's order is never above 2 and never above n - 1
\* (a request the endpoints refuse with 422 fits nothing)
C16_DegreeIsMinTwoNMinusOne ==
    (/\ crawlCall.fn # "none"
     /\ crawlCall.status # 422
     /\ Len(crawlCall.known_distances) >= 2)
    => /\ ~crawlCall.model.raised
       /\ crawlCall.model.degree = Min(2, Len(crawlCall.known_distances) - 1)
       /\ Len(crawlCall.model.coefficients) - 1 <= crawlCall.model.degree

\* the case of test_parabolic_fit: three points that are not on a line get a
\* parabola
C16_Witness ==
    /\ crawlCall.fn = "calculate_crawl_regression"
    /\ crawlCall.known_distances = <<1, 3, 5>>
    /\ crawlCall.known_crawls = <<25, 10, 0>>
    /\ crawlCall.model.degree = 2
    /\ Len(crawlCall.model.coefficients) = 3

\* the sign of the polynomial at the distance l / q, for l > 0 and q > 0
SignAt(c, l, q) ==
    IF Len(c) = 1 THEN Sgn(c[1])
    ELSE IF Len(c) = 2 THEN Sgn(c[1] * l + c[2] * q)
    ELSE LET X == c[1] * l
             Y == (c[2] * l + c[3] * q) * q
             t == FloorDiv(-Y, l)
         IN  IF X > t THEN 1 ELSE IF X = t /\ t * l = -Y THEN 0 ELSE -1

\* the polynomial has a real root r with l1 / q <= r <= l2 / q: every
\* distance is a root of the zero polynomial, a sign change or a zero at the
\* ends gives a root, and a parabola also has its roots inside when its
\* vertex is inside and its branches end on the side it opens to
RootIn(c, l1, l2, q) ==
    /\ l1 <= l2
    /\ IF Len(c) = 1 THEN c[1] = 0
       ELSE \/ SignAt(c, l1, q) * SignAt(c, l2, q) <= 0
            \/ /\ Len(c) = 3
               /\ c[2] * c[2] - 4 * c[1] * c[3] >= 0
               /\ Sgn(c[1]) * SignAt(c, l1, q) > 0
               /\ Sgn(c[1]) * 2 * c[1] * l1 < Sgn(c[1]) * (-c[2]) * q
               /\ Sgn(c[1]) * (-c[2]) * q < Sgn(c[1]) * 2 * c[1] * l2

HasRootInRange(c) == RootIn(c, RangeLow, RangeHigh, DistUnit)

\* k tenths of a metre is the smallest root in the range, rounded: a root
\* lies within 0.05 m of it and none lies below that
IsRoundedSmallestRoot(c, k) ==
    LET q == 2 * 10 * DistUnit
        lo == Max(2 * k - 1, 2 * 10 * RangeLow)
        hi == Min(2 * k + 1, 2 * 10 * RangeHigh)
    IN  /\ RootIn(c, lo, hi, q)
        /\ ~RootIn(c, 2 * 10 * RangeLow,
                   IF SignAt(c, lo, q) = 0 THEN lo - 1 ELSE lo, q)

\* C17: find_point_on_distance returns the smallest real root of the fitted
\* polynomial in [5, 100], rounded, and returns None exactly when the
\* polynomial has no real root in [5, 100]
C17_SmallestRootOrNone ==
    crawlCall.fn = "find_point_on_distance"
    => /\ crawlCall.point_on.none <=> ~HasRootInRange(crawlCall.model.coefficients)
       /\ ~crawlCall.point_on.none
            => IsRoundedSmallestRoot(crawlCall.model.coefficients,
                                     crawlCall.point_on.tenths)

\* what does hold: the same for a polynomial that is not the zero
\* polynomial and has no double root
PointOnOfProperPolynomial ==
    (/\ crawlCall.fn = "find_point_on_distance"
     /\ crawlCall.model.coefficients # <<0>>
     /\ ~DoubleRoot(crawlCall.model.coefficients))
    => /\ crawlCall.point_on.none <=> ~HasRootInRange(crawlCall.model.coefficients)
       /\ ~crawlCall.point_on.none
            => IsRoundedSmallestRoot(crawlCall.model.coefficients,
                                     crawlCall.point_on.tenths)

\* the third case of test_find_point_on_distance is reached: crawls 30, 25
\* and 20 mm at 10, 30 and 50 m never cross zero below 100 m
PointOnNoneReached ==
    /\ crawlCall.fn = "find_point_on_distance"
    /\ crawlCall.known_crawls = <<30, 25, 20>>
    /\ crawlCall.point_on.none

\* C20: called with a single (distance, offset) pair,
\* calculate_crawl_regression fails instead of returning a fitted model
C20_SinglePairFails ==
    (/\ crawlCall.fn = "calculate_crawl_regression"
     /\ Len(crawlCall.known_distances) = 1)
    => crawlCall.model.raised

\* C18: called on a group below its minimum size, the empty group included,
\* each group statistic returns a defined result with no NaN in it:
\* compute_drms, compute_r95 and compute_rayleigh_sigma_with_ci on no shot,
\* compute_confidence_ellipse on fewer than 3 shots, detect_fliers on fewer
\* than 5
C18_DegenerateResultsDefined ==
    /\ (grpCall.fn = "dispersion" /\ Len(grpCall.pts) = 0)
          => (~grpCall.drms.nan /\ ~grpCall.r95.nan)
    /\ (grpCall.fn = "rayleigh" /\ Len(grpCall.pts) = 0)
          => ~grpCall.rayleigh.nan
    /\ (grpCall.fn = "ellipse" /\ Len(grpCall.pts) < 3)
          => (~grpCall.ellipse.nan /\ grpCall.ellipse.semi_major = 0
              /\ grpCall.ellipse.semi_minor = 0)
    /\ (grpCall.fn = "fliers" /\ Len(grpCall.pts) < 5)
          => (~grpCall.fliers.nan /\ grpCall.fliers.flier_count = 0)

\* what does hold: the same for a group that has at least one shot
SmallGroupResultsDefined ==
    /\ (grpCall.fn = "ellipse" /\ Len(grpCall.pts) \in 1..2)
          => (~grpCall.ellipse.nan /\ grpCall.ellipse.semi_major = 0
              /\ grpCall.ellipse.semi_minor = 0)
    /\ (grpCall.fn = "fliers" /\ Len(grpCall.pts) \in 1..4)
          => (~grpCall.fliers.nan /\ grpCall.fliers.flier_count = 0)
    /\ (grpCall.fn = "dispersion" /\ Len(grpCall.pts) = 1)
          => (~grpCall.drms.nan /\ ~grpCall.r95.nan)
    /\ (grpCall.fn = "rayleigh" /\ Len(grpCall.pts) = 1)
          => ~grpCall.rayleigh.nan

\* a one-shot group is asked for its ellipse
SmallGroupReached ==
    /\ grpCall.fn = "ellipse"
    /\ Len(grpCall.pts) = 1
    /\ ~grpCall.ellipse.nan

\* C19: get_ring_score and get_flint_score called with a negative radius
\* signal an error instead of returning a score
C19_NegativeRadiusFails ==
    (/\ scoreCall.fn \in {"get_ring_score", "get_flint_score"}
     /\ scoreCall.radius < 0)
    => scoreCall.raised

\* what the code does instead: a radius just below 0 scores 5 on a Flint
\* face and 0 on a ring face
NegativeRadiusScores ==
    /\ scoreCall.radius < 0
    /\ scoreCall.face > 0
    /\ ~scoreCall.raised
    /\ \/ scoreCall.fn = "get_flint_score" /\ scoreCall.score = 5
       \/ scoreCall.fn = "get_ring_score" /\ scoreCall.score = 0

\* C24: the binary search ends after at most 50 iterations, and throughout
\* it 0 <= low <= mid <= high <= 200 holds, so the sigma returned for a
\* score between 0 and 10 lies in [0, 200]
C24_SearchBounded ==
    /\ parkCall.fn \in {"binary_search", "binary_search_done"}
         => /\ parkCall.iter <= Iterations
            /\ 0 <= parkCall.low
            /\ parkCall.low <= parkCall.mid
            /\ parkCall.mid <= parkCall.high
            /\ parkCall.high <= SigmaUnits
    /\ parkCall.fn = "binary_search_done"
         => (0 <= parkCall.result /\ parkCall.result <= SigmaUnits)
    /\ (/\ parkCall.fn = "calculate_sigma_from_score"
        /\ parkCall.score > 0
        /\ parkCall.score < 10 * Mega)
         => (0 <= parkCall.result /\ parkCall.result <= SigmaUnits)

\* a search that used all 50 iterations and returned the last midpoint
C24_Witness ==
    /\ parkCall.fn = "binary_search_done"
    /\ parkCall.iter = Iterations
    /\ parkCall.face = 122
    /\ parkCall.result = (parkCall.low + parkCall.high) \div 2

\* the loop taken step by step returns what the call returns
LoopAgreesWithCall ==
    parkCall.fn = "binary_search_done"
    => parkCall.result = CalculateSigmaFromScore(parkCall.score, parkCall.face)

\* the sigma the call returned gives the requested score within the tolerance
Converged ==
    Abs(CalculateExpectedScore(parkCall.result, parkCall.face) - parkCall.score)
      < Tolerance

RECURSIVE ExactEwmaNum(_, _, _)
ExactEwmaNum(values, l, t) ==
    IF t = 0 THEN SumSeq(values)
    ELSE l * values[t] * XPow(10, t - 1) * Len(values)
           + (10 - l) * ExactEwmaNum(values, l, t - 1)

\* C28: on a series of n >= 2 values compute_ewma returns ewma, ucl and lcl
\* lists of length n each, and every ewma element is the value of the
\* recursion seeded at the series mean, taken in input order (to the fourth
\* decimal, the unit of the values, that the result is rounded to)
C28_EwmaRecursion ==
    (ewmaCall.fn = "ewma" /\ Len(ewmaCall.values) >= 2)
    => LET n == Len(ewmaCall.values)
           r == ewmaCall.result
       IN  /\ Len(r.ewma) = n
           /\ Len(r.ucl) = n
           /\ Len(r.lcl) = n
           /\ \A t \in 1..n :
                 LET below == ExactEwmaNum(ewmaCall.values, ewmaCall.lam, t)
                                \div (n * XPow(10, t))
                 IN  r.ewma[t] \in {below, below + 1}

\* the series 0, 30 with lambda 0.2: mean 15, then 12 and 15.6, rounded 16
C28_Witness ==
    /\ ewmaCall.fn = "ewma"
    /\ ewmaCall.values = <<0, 30>>
    /\ ewmaCall.lam = 2
    /\ ewmaCall.result.ewma = <<12, 16>>

\* compute_hit_probability counts a shot at this radius in the bin of ring_val
CountedInRing(radius, ring_val, face) ==
    BinCount(<<radius>>, ring_val, RingWidth(face)) = 1

\* C30: for every radius r >= 0 and face diameter > 0, compute_hit_probability
\* counts a shot at radius r in the ring that get_ring_score(r, face,
\* x_is_11 = false) assigns to r, radii on a ring boundary included
C30_BinningMatchesScoring ==
    (/\ scoreCall.fn = "get_ring_score"
     /\ ~scoreCall.x_is_11
     /\ scoreCall.radius >= 0
     /\ scoreCall.face > 0)
    => CountedInRing(scoreCall.radius, scoreCall.score, scoreCall.face)

\* what does hold: the same for a radius that is not on a ring boundary
BinningMatchesOffBoundary ==
    (/\ scoreCall.fn = "get_ring_score"
     /\ ~scoreCall.x_is_11
     /\ scoreCall.radius >= 0
     /\ scoreCall.face > 0
     /\ scoreCall.radius % RingWidth(scoreCall.face) # 0)
    => CountedInRing(scoreCall.radius, scoreCall.score, scoreCall.face)

\* a shot on the outer edge of the 10 ring of a 40 cm face scores 10 and is
\* counted in the bin of ring 9
BoundaryShotReached ==
    /\ scoreCall.fn = "get_ring_score"
    /\ scoreCall.face = 40
    /\ scoreCall.radius = RingWidth(40)
    /\ scoreCall.score = 10
    /\ CountedInRing(scoreCall.radius, 9, 40)

\* the result for a group whose statistics cannot be computed
CannotCompute(f) ==
    /\ f.interpretation = "Cannot compute - singular covariance"
    /\ f.flier_count = 0
    /\ f.flier_indices = {}
    /\ f.clean_sigma = f.full_sigma

\* C22: detect_fliers on n >= 5 shots whose covariance matrix is singular
\* (all shots identical or collinear) returns the 'cannot compute' result
C22_SingularGivesCannotCompute ==
    (/\ grpCall.fn = "fliers"
     /\ Len(grpCall.pts) >= 5
     /\ CovDet(grpCall.pts) = 0)
    => CannotCompute(grpCall.fliers)

\* what does hold: the same when the robust step fails and the sample
\* covariance is inverted
SingularFallbackCannotCompute ==
    (/\ grpCall.fn = "fliers"
     /\ Len(grpCall.pts) >= 5
     /\ CovDet(grpCall.pts) = 0
     /\ grpCall.robust # "fit")
    => CannotCompute(grpCall.fliers)

\* collinear shots, a robust fit that succeeds, and a flier reported
CollinearFitFlagsFlier ==
    /\ grpCall.fn = "fliers"
    /\ Len(grpCall.pts) >= 5
    /\ CovDet(grpCall.pts) = 0
    /\ VarNum(Xs(grpCall.pts)) > 0
    /\ grpCall.robust = "fit"
    /\ grpCall.fliers.flier_count >= 1

\* C26: clean_sigma is the DRMS of the non-flier shots exactly when n >= 5,
\* at least one flier is flagged and at least 3 shots remain without the
\* fliers; in every other case clean_sigma = full_sigma, and for n < 5 no
\* detection is done
C26_CleanSigma ==
    grpCall.fn = "fliers"
    => LET n == Len(grpCall.pts)
           f == grpCall.fliers
           rest == Unmasked(grpCall.pts, f.flier_indices, 1)
       IN  /\ f.flier_count = Cardinality(f.flier_indices)
           /\ IF n >= 5 /\ f.flier_count >= 1 /\ n - f.flier_count >= 3
              THEN f.clean_sigma = Round3(SqrtRat(VarNum(Xs(rest)) + VarNum(Ys(rest)),
                                                  Len(rest) * Len(rest), Digits))
              ELSE n > 0 => f.clean_sigma = f.full_sigma
           /\ n < 5 => /\ f.flier_count = 0
                       /\ f.flier_indices = {}
                       /\ f.interpretation = "Too few shots for flier detection"

\* a flier is flagged and removed, and the clean sigma is below the full one
C26_Witness ==
    /\ grpCall.fn = "fliers"
    /\ Len(grpCall.pts) >= 5
    /\ grpCall.fliers.flier_count = 1
    /\ grpCall.fliers.clean_sigma < grpCall.fliers.full_sigma

\* fliers are flagged and fewer than 3 shots remain: the full sigma is kept
TooFewRemainReached ==
    /\ grpCall.fn = "fliers"
    /\ Len(grpCall.pts) >= 5
    /\ grpCall.fliers.flier_count >= 1
    /\ Len(grpCall.pts) - grpCall.fliers.flier_count < 3
    /\ grpCall.fliers.full_sigma > 0
    /\ grpCall.fliers.clean_sigma = grpCall.fliers.full_sigma

(***************************************************************************)
(* C27.  compute_accuracy_precision_ratio: when the total error is at      *)
(* least 0.001 the two returned percentages add up to 100 within the       *)
(* rounding to one decimal (each is within 0.05 of its exact share), the   *)
(* interpretation is aim-dominant exactly when the accuracy share exceeds  *)
(* 60, consistency-dominant exactly when the precision share exceeds 60,   *)
(* and mixed otherwise; when the total is below 0.001 both percentages are *)
(* 0 and the label says that no error was detected.                        *)
(***************************************************************************)
SharesOf(pts) ==
    LET n == Len(pts)
        b == SumSeq(Xs(pts)) * SumSeq(Xs(pts)) + SumSeq(Ys(pts)) * SumSeq(Ys(pts))
        v == VarNum(Xs(pts)) + VarNum(Ys(pts))
    IN  [n |-> n, b |-> b, v |-> v, t |-> b + v]

C27_SharesAndLabel ==
    (grpCall.fn = "accuracy" /\ Len(grpCall.pts) > 0) =>
        LET s == SharesOf(grpCall.pts)
            a == grpCall.accuracy
        IN  /\ ~a.nan
            /\ (s.t * 1000 >= s.n * s.n) =>
                  /\ Abs(a.accuracy_pct + a.precision_pct - 1000) <= 1
                  /\ 2 * Abs(a.accuracy_pct * s.t - 1000 * s.b) <= s.t
                  /\ 2 * Abs(a.precision_pct * s.t - 1000 * s.v) <= s.t
                  /\ (a.interpretation = "Aim-dominant error") <=> (100 * s.b > 60 * s.t)
                  /\ (a.interpretation = "Consistency-dominant error")
                         <=> (100 * s.v > 60 * s.t)
                  /\ (a.interpretation = "Mixed error")
                         <=> (100 * s.b <= 60 * s.t /\ 100 * s.v <= 60 * s.t)
            /\ (s.t * 1000 < s.n * s.n) =>
                  /\ a.accuracy_pct = 0
                  /\ a.precision_pct = 0
                  /\ a.interpretation = "Perfect - no error detected"

\* an aim-dominant group whose shares are not whole percentages
C27_Witness ==
    /\ grpCall.fn = "accuracy"
    /\ grpCall.accuracy.interpretation = "Aim-dominant error"
    /\ grpCall.accuracy.accuracy_pct \in 601..999
    /\ grpCall.accuracy.precision_pct > 0

ConsistencyDominantReached ==
    /\ grpCall.fn = "accuracy"
    /\ grpCall.accuracy.interpretation = "Consistency-dominant error"

MixedReached ==
    /\ grpCall.fn = "accuracy"
    /\ grpCall.accuracy.interpretation = "Mixed error"
    /\ ~grpCall.accuracy.nan

NoErrorReached ==
    /\ grpCall.fn = "accuracy"
    /\ grpCall.accuracy.interpretation = "Perfect - no error detected"
    /\ Len(grpCall.pts) > 1

(***************************************************************************)
(* C29.  compute_within_end_trend reports one entry per input position, in *)
(* ascending order, numbered from 1 (position + 1), with the mean score of *)
(* that position (to three decimals) and its count; best_position is a     *)
(* position whose mean is the highest and worst_position one whose mean is *)
(* the lowest; for an empty input positions is empty and both are 0.       *)
(***************************************************************************)
EntryAt(trend, position) ==
    CHOOSE r \in {trend.positions[i] : i \in 1..Len(trend.positions)} :
        r.position = position

C29_TrendPerPosition ==
    (ewmaCall.fn = "within_end_trend") =>
        LET shots == ShotsByPosition(ewmaCall.ends)
            t == ewmaCall.trend
            n == Len(t.positions)
        IN  /\ n = Cardinality(DOMAIN shots)
            /\ \A pos \in DOMAIN shots :
                  LET r == t.positions[pos + 1]
                  IN  /\ r.position = pos + 1
                      /\ r.count = Len(shots[pos])
                      /\ r.count > 0
                      /\ ~r.nan
                      /\ 2 * Abs(r.avg_score * r.count - SumSeq(shots[pos]) * 1000)
                            <= r.count
            /\ \A i \in 1..(n - 1) : t.positions[i].position < t.positions[i + 1].position
            /\ (n > 0) =>
                  /\ t.best_position \in 1..n
                  /\ t.worst_position \in 1..n
                  /\ \A i \in 1..n :
                        /\ EntryAt(t, t.best_position).avg_score >= t.positions[i].avg_score
                        /\ EntryAt(t, t.worst_position).avg_score <= t.positions[i].avg_score
            /\ (n = 0) => (t.best_position = 0 /\ t.worst_position = 0)

\* three positions with different means, the best neither first nor last
C29_Witness ==
    /\ ewmaCall.fn = "within_end_trend"
    /\ Len(ewmaCall.trend.positions) = 3
    /\ ewmaCall.trend.best_position = 2
    /\ ewmaCall.trend.worst_position = 3
    /\ ewmaCall.trend.positions[3].count < ewmaCall.trend.positions[1].count
    /\ ewmaCall.trend.positions[2].avg_score = 9333

EmptyTrendReached ==
    /\ ewmaCall.fn = "within_end_trend"
    /\ ewmaCall.trend.positions = <<>>
    /\ ewmaCall.trend.best_position = 0

(***************************************************************************)
(* Calls of get_max_score.                                                 *)
(***************************************************************************)
UpperChar(c) ==
    IF \E i \in 1..Len(LowerLetters) : LowerLetters[i] = c
    THEN UpperLetters[CHOOSE i \in 1..Len(LowerLetters) : LowerLetters[i] = c]
    ELSE c

StrUpper(name) == [i \in 1..Len(name) |-> UpperChar(name[i])]

PresetKeys == {ROUND_PRESETS[i].key : i \in 1..Len(ROUND_PRESETS)}

\* the registered names as written, in lower case and in upper case, and
\* names of no round: a made-up one, the empty one, one short of a key
RoundTypes ==
    PresetKeys \cup {StrLower(k) : k \in PresetKeys} \cup {StrUpper(k) : k \in PresetKeys}
        \cup {<<"U", "n", "k", "n", "o", "w", "n", " ", "R", "o", "u", "n", "d">>,
               <<>>, <<"W", "A", " ", "1", "8">>}

ArrowCounts == {0, 1, 28, 30, 36, 48, 56, 60, 72, 144}

CallGetMaxScore ==
    /\ roundCall.fn = "none"
    /\ \E round_type \in RoundTypes, arrow_count \in ArrowCounts :
         roundCall' = [fn |-> "get_max_score", round_type |-> round_type,
                       arrow_count |-> arrow_count,
                       result |-> GetMaxScore(round_type, arrow_count)]
    /\ UNCHANGED otherThanRound

ReturnRound ==
    /\ roundCall.fn # "none"
    /\ roundCall' = NoRoundCall
    /\ UNCHANGED otherThanRound

RoundInit ==
    /\ scoreCall = NoScoreCall
    /\ grpCall = NoGrpCall
    /\ ewmaCall = NoEwmaCall
    /\ hitCall = NoHitCall
    /\ hitLog = <<>>
    /\ globalRandom = NoGlobalUse
    /\ roundCall = NoRoundCall
    /\ cmpCall = NoCmpCall
    /\ parkCall = NoParkCall
    /\ crawlCall = NoCrawlCall

RoundNext == CallGetMaxScore \/ ReturnRound

SpecRounds == RoundInit /\ [][RoundNext]_vars

(***************************************************************************)
(* C23.  get_max_score(round_type, k): for a round whose name matches a    *)
(* registered name without regard to case the result is the preset's       *)
(* max_score when k is the preset's arrow count, otherwise k * 10 under WA *)
(* scoring and k * 5 under field or flint scoring; for any other name the  *)
(* result is k * 10.                                                       *)
(***************************************************************************)
SameIgnoringCase(a, b) ==
    /\ Len(a) = Len(b)
    /\ \A i \in 1..Len(a) : LowerChar(a[i]) = LowerChar(b[i])

C23_MaxScore ==
    (roundCall.fn = "get_max_score") =>
        LET k == roundCall.arrow_count
            known == {i \in 1..Len(ROUND_PRESETS) :
                         SameIgnoringCase(ROUND_PRESETS[i].key, roundCall.round_type)}
        IN  /\ \A i \in known :
                  LET preset == ROUND_PRESETS[i]
                  IN  roundCall.result =
                         IF k = preset.arrow_count THEN preset.max_score
                         ELSE IF preset.scoring_type = "wa" THEN k * 10
                         ELSE k * 5
            /\ (known = {}) => roundCall.result = k * 10

\* "flint" in lower case with the preset's 56 arrows
C23_Witness ==
    /\ roundCall.fn = "get_max_score"
    /\ roundCall.round_type = <<"f", "l", "i", "n", "t">>
    /\ roundCall.arrow_count = 56
    /\ roundCall.result = 280

CustomFieldCountReached ==
    /\ roundCall.fn = "get_max_score"
    /\ roundCall.round_type = <<"I", "N", "D", "O", "O", "R", " ", "F", "I", "E", "L", "D">>
    /\ roundCall.arrow_count = 30
    /\ roundCall.result = 150

UnknownRoundReached ==
    /\ roundCall.fn = "get_max_score"
    /\ roundCall.round_type = <<"W", "A", " ", "1", "8">>
    /\ roundCall.arrow_count = 36
    /\ roundCall.result = 360

(***************************************************************************)
(* C21.  POST /api/crawls/calculate and POST /api/crawls/predict answer    *)
(* 422 when fewer than 2 known distances are given or when the two lists   *)
(* differ in length, and then no regression, chart or prediction has been  *)
(* computed.                                                               *)
(***************************************************************************)
C21_InvalidListsAnswer422 ==
    (/\ crawlCall.fn \in {"POST /calculate", "POST /predict"}
     /\ \/ Len(crawlCall.known_distances) < 2
        \/ Len(crawlCall.known_distances) # Len(crawlCall.known_crawls))
    => /\ crawlCall.status = 422
       /\ crawlCall.computed = {}
       /\ crawlCall.model = NoCrawlCall.model
       /\ crawlCall.chart = <<>>
       /\ crawlCall.prediction = NoCrawlCall.prediction
       /\ crawlCall.point_on = NoCrawlCall.point_on

\* three distances with two crawls, refused by /calculate
C21_Witness ==
    /\ crawlCall.fn = "POST /calculate"
    /\ Len(crawlCall.known_distances) = 3
    /\ Len(crawlCall.known_crawls) = 2
    /\ crawlCall.status = 422

TooFewPointsRefused ==
    /\ crawlCall.fn = "POST /predict"
    /\ Len(crawlCall.known_distances) = 1
    /\ Len(crawlCall.known_crawls) = 1
    /\ crawlCall.status = 422

\* valid lists are answered with a chart and a prediction
ValidListsAnswered ==
    (/\ crawlCall.fn \in {"POST /calculate", "POST /predict"}
     /\ Len(crawlCall.known_distances) >= 2
     /\ Len(crawlCall.known_distances) = Len(crawlCall.known_crawls))
    => /\ crawlCall.status = 200
       /\ "regression" \in crawlCall.computed

ChartReached ==
    /\ crawlCall.fn = "POST /calculate"
    /\ crawlCall.status = 200
    /\ crawlCall.known_distances = <<2, 5>>
    /\ crawlCall.known_crawls = <<10, 0>>
    /\ Len(crawlCall.chart) = 3
    /\ crawlCall.chart[1].crawl_mm = 133
    /\ crawlCall.chart[3].crawl_mm = 67
    /\ ~crawlCall.point_on.none

====
